---- MODULE Spec2Model ----
(***************************************************************************)
(* ExacqMan: NVR export lifecycle (Exacqvision.get_video), clip timestamp  *)
(* resolution (Exacqvision.get_timestamps), the frame transform            *)
(* (process_video), the compression (compress_video) and the extract       *)
(* command (main), modelled as state machines.                             *)
(*                                                                         *)
(*   Spec     - one run of Exacqvision.get_video against an arbitrary NVR  *)
(*   FairSpec - Spec with the progress the interpreter guarantees          *)
(*   SpecMono - FairSpec against an NVR whose progress never decreases     *)
(*   SpecTS   - one call of Exacqvision.get_timestamps                     *)
(*   SpecPV   - one call of process_video                                  *)
(*   SpecTransform - process_video followed by compress_video on the same  *)
(*              settings, over every crop region and frame size            *)
(*   SpecMain - one run of the extract command                             *)
(*   SpecDT   - one call of convert_input_to_datetime                       *)
(*   SpecWeb  - the endpoints of the web backend and their background      *)
(*              tasks                                                      *)
(*   SpecProgress - one call of ExacqManService.extract_video_with_progress*)
(*   SpecNames - the name of an exported file, generated and parsed back   *)
(***************************************************************************)
EXTENDS Integers, Sequences, FiniteSets, TLC

(***************************************************************************)
(* Bounds of the model                                                     *)
(***************************************************************************)
\* largest stall budget (num_of_retries) a run is started with
MaxRetries == 5
\* camera ids known to the model: 1..MaxCamera
MaxCamera == 2
\* clip and window instants range over 0..MaxTime (seconds)
MaxTime == 4
\* largest number of clips in one search response
MaxClips == 2
\* largest number of decodable frames in a source video
MaxFrames == 8
\* largest timelapse multiplier
MaxMultiplier == 4
\* largest number of timestamps handed to process_video
MaxStamps == 3
\* frame widths and heights range over 1..MaxDim; crop origins over
\* 0..MaxDim and crop sizes over 1..MaxDim + 1
MaxDim == 3
\* largest number of frames of a source in SpecTransform and SpecMain
MaxCropFrames == 2
\* the times of day are the slots 0..MaxSlot
MaxSlot == 3
\* the jobs created during one run of the web server
MaxJobs == 2
\* the longest camera alias, in characters
MaxAlias == 3

(***************************************************************************)
(* Program constants                                                       *)
(***************************************************************************)
\* default of get_video's num_of_retries parameter
DefaultRetries == 5
\* the progress value export_status treats as "ready"
ReadyProgress == 100
\* Settings.timelapse_multiplier, the class default
DefaultMultiplier == 10
\* Settings.compression_level, the class default
DefaultQuality == "medium"

\* progress values the NVR may report in a status poll
ProgressValues == {10, 50, ReadyProgress}
\* length of the remembered suffix of the poll history
PollWindow == MaxRetries + 2
\* the poll counter saturates here (it only observes, it never blocks a poll)
PollCap == MaxRetries + 4
CameraIds == 1..MaxCamera
\* values the server may put in the 'export_id' field; "None" is a missing
\* field, "" an empty one: both are falsy in Python
NoneId == "None"
ExportIdResponses == {NoneId, "", "e1", "e2"}

VARIABLES
    \* ---- Exacqvision.get_video ----
    pc,               \* position in get_video
    camera_id,        \* argument camera
    num_of_retries,   \* argument num_of_retries
    monotoneServer,   \* the NVR never reports less progress than in the poll before
    export_id,        \* local export_id (NoneId while None)
    retries,          \* local retries
    ready_to_export,  \* local ready_to_export
    progress,         \* local progress
    exc,              \* exception propagating out of get_video (NoExc if none)
    pending,          \* exception propagating when the finally block was entered
    result,           \* value returned by get_video ("" if none)
    cameraCheck,      \* list_cameras: "unknown" before the call, then "fail" or "listed"
    cameraList,       \* the camera ids the NVR listed
    lastCall,         \* the NVR call issued most recently ("none" before the first)
    timedOut,         \* the ExacqvisionTimeoutError of line 301 was raised
    nListCameras,     \* number of config.web calls issued
    nExportReq,       \* number of export.web?camera=.. calls issued
    nStatus,          \* number of export.web?export=ID calls issued (saturating)
    nDownload,        \* number of action=download calls issued
    nDelete,          \* number of action=finish calls issued
    deletedId,        \* export id the delete call was issued against
    deleteFailed,     \* the delete call raised
    polls,            \* the last PollWindow progress values reported
    \* ---- Exacqvision.get_timestamps ----
    ts_pc,            \* position in get_timestamps
    ts_start,         \* argument start (naive local wall-clock second)
    ts_stop,          \* argument stop (naive local wall-clock second)
    tz_offset,        \* self.timezone: local time = GMT + tz_offset
    clips,            \* clips of the search response: <<startTime, endTime>> in GMT
    ts_result,        \* the list get_timestamps returns
    ts_exc,           \* exception propagating out of get_timestamps
    \* ---- process_video ----
    pv_pc,            \* position in process_video
    multiplier,       \* settings.timelapse_multiplier
    nFrames,          \* number of frames the source decodes
    canOpen,          \* whether cv2.VideoCapture opens the source
    number_of_timestamps, \* len(timestamps); 0 when None or empty
    success,          \* local success: the last vid.read() returned a frame
    count,            \* local count: zero-based index of the frame in hand
    written,          \* indices of the source frames written, in write order
    stampIndex,       \* index into timestamps used for the last overlay (-1: none yet)
    readerOpen,       \* the VideoCapture is open and not released
    writerOpen,       \* the VideoWriter is created and not released
    pv_exc,           \* exception (or SystemExit) leaving process_video
    crop,             \* settings.crop
    crop_dimensions,  \* settings.crop_dimensions: <<>> for None, else <<<<x, y>>, <<w, h>>>>
    width,            \* frame.shape[1] of the source
    height,           \* frame.shape[0] of the source
    x,                \* local x
    y,                \* local y
    crop_width,       \* local crop_width
    crop_height,      \* local crop_height
    warned,           \* the "Crop dimensions ... exceed frame size" warning was printed
    writerSize,       \* frame size the VideoWriter was created with (<<>> before)
    frameSizes,       \* <<width, height>> of every frame handed to writer.write
    nOpen,            \* number of cv2.VideoCapture attempts
    \* ---- compress_video ----
    cv_pc,            \* position in compress_video
    compression_level,\* settings.compression_level
    bitrate,          \* local bitrate ("" before it is chosen)
    resolution,       \* local resolution (<<>> before it is chosen)
    encoded,          \* write_videofile produced the output file
    cv_exc,           \* exception leaving compress_video
    \* ---- main (extract) ----
    m_pc,             \* position in main
    arg_multiplier,   \* --multiplier as typed on the command line
    cfg_multiplier,   \* [Settings] timelapse_multiplier of the configuration file
    arg_quality,      \* --quality as typed on the command line ("" if absent)
    cfg_quality,      \* [Settings] compression_level ("" if absent or blank)
    exapi,            \* session token of the object bound to exapi (0: none)
    sessions,         \* session tokens logged in and not logged out
    nvrCalls,         \* the NVR requests main has issued, in order
    m_exc,            \* exception pending in, or leaving, main
    exit_status,      \* exit status of the process (-1 while it runs)
    \* ---- convert_input_to_datetime ----
    dt_pc,            \* position in convert_input_to_datetime
    dt_date,          \* argument date: <<month, day>>
    dt_start,         \* argument start: a time of day
    dt_end,           \* argument end: a time of day
    dt_now,           \* what datetime.now() returns
    start_datetime,   \* local start_datetime
    end_datetime,     \* local end_datetime
    \* ---- web backend: api/routes.py ----
    active_jobs,      \* the module-level dict active_jobs: job id -> job
    scheduled,        \* ids of the jobs whose background task has not started
    j_running,        \* id of the job whose task holds the event loop (0: none)
    response,         \* the answer to the latest request
    \* ---- web backend: ExacqManService.extract_video_with_progress ----
    g_pc,             \* position in extract_video_with_progress
    g_request,        \* class of the argument request
    cli,              \* lines the child process has still to write
    returncode,       \* exit status the child process ends with
    progress_percent, \* local progress_percent
    since_incremental,\* current_time - last_incremental_time, in seconds
    reported,         \* percentage of the latest progress_callback call (-1: none)
    regressed,        \* a progress_callback call passed less than the one before
    g_exc,            \* exception leaving extract_video_with_progress
    \* ---- web backend: exported file names ----
    f_pc,             \* position in the life of an exported file's name
    f_alias,          \* request.camera_alias, a string of characters
    f_multiplier,     \* request.timelapse_multiplier
    f_start,          \* request.start_datetime: <<year, month, day, hour, minute>>
    f_name,           \* the name of the file
    f_parsed          \* what _parse_filename_metadata returned for it

evars == <<pc, camera_id, monotoneServer, num_of_retries, export_id, retries, ready_to_export,
           progress, exc, pending, result, cameraCheck, cameraList, lastCall,
           timedOut, nListCameras, nExportReq, nStatus, nDownload, nDelete, deletedId, deleteFailed,
           polls>>

tvars == <<ts_pc, ts_start, ts_stop, tz_offset, clips, ts_result, ts_exc>>

pvars == <<pv_pc, multiplier, nFrames, canOpen, number_of_timestamps,
           success, count, written, stampIndex, readerOpen, writerOpen, pv_exc,
           crop, crop_dimensions, width, height, x, y, crop_width, crop_height,
           warned, writerSize, frameSizes, nOpen>>

cvars == <<cv_pc, compression_level, bitrate, resolution, encoded, cv_exc>>

mvars == <<m_pc, arg_multiplier, cfg_multiplier, arg_quality, cfg_quality,
           exapi, sessions, nvrCalls, m_exc, exit_status>>

\* the command-line program
corevars == <<evars, tvars, pvars, cvars, mvars>>

dvars == <<dt_pc, dt_date, dt_start, dt_end, dt_now, start_datetime, end_datetime>>

jvars == <<active_jobs, scheduled, j_running, response>>

gvars == <<g_pc, g_request, cli, returncode, progress_percent, since_incremental,
           reported, regressed, g_exc>>

fvars == <<f_pc, f_alias, f_multiplier, f_start, f_name, f_parsed>>

\* the date conversion of the command line and the web backend
wvars == <<dvars, jvars, gvars, fvars>>

vars == <<evars, tvars, pvars, cvars, mvars, wvars>>

(***************************************************************************)
(* Exceptions: the class that is raised and the phase that raised it       *)
(***************************************************************************)
NoExc == [type |-> "none", phase |-> "none"]

Exc(t, p) == [type |-> t, phase |-> p]

\* ExacqvisionTimeoutError is a subclass of ExacqvisionError
IsExacqvisionError(e) == e.type \in {"ExacqvisionError", "ExacqvisionTimeoutError"}

\* except ExacqvisionError as e: raise ExacqvisionError(f"Failed to get video: {str(e)}")
\* any other exception passes the except clause unchanged
Propagate(e) == IF IsExacqvisionError(e) THEN Exc("ExacqvisionError", e.phase) ELSE e

\* an exception leaves the try body: through the except clause into finally
Raise(e) ==
    /\ exc' = Propagate(e)
    /\ pending' = Propagate(e)
    /\ pc' = "finally"

Min(a, b) == IF a < b THEN a ELSE b

\* append v to the remembered poll history, keeping the last PollWindow values
Remember(h, v) ==
    IF Len(h) < PollWindow THEN Append(h, v) ELSE Append(Tail(h), v)

(***************************************************************************)
(* A component that is not running in the specification at hand            *)
(***************************************************************************)
IdleExport ==
    /\ pc = "idle"
    /\ camera_id = 1
    /\ monotoneServer = FALSE
    /\ num_of_retries = 0
    /\ export_id = NoneId
    /\ retries = 0
    /\ ready_to_export = FALSE
    /\ progress = 0
    /\ exc = NoExc
    /\ pending = NoExc
    /\ result = ""
    /\ cameraCheck = "unknown"
    /\ cameraList = {}
    /\ lastCall = "none"
    /\ timedOut = FALSE
    /\ nListCameras = 0
    /\ nExportReq = 0
    /\ nStatus = 0
    /\ nDownload = 0
    /\ nDelete = 0
    /\ deletedId = NoneId
    /\ deleteFailed = FALSE
    /\ polls = <<>>

IdleTS ==
    /\ ts_pc = "idle"
    /\ ts_start = 0
    /\ ts_stop = 0
    /\ tz_offset = 0
    /\ clips = <<>>
    /\ ts_result = <<>>
    /\ ts_exc = NoExc

IdlePV ==
    /\ pv_pc = "idle"
    /\ multiplier = 1
    /\ nFrames = 0
    /\ canOpen = FALSE
    /\ number_of_timestamps = 0
    /\ success = FALSE
    /\ count = 0
    /\ written = <<>>
    /\ stampIndex = -1
    /\ readerOpen = FALSE
    /\ writerOpen = FALSE
    /\ pv_exc = NoExc
    /\ crop = FALSE
    /\ crop_dimensions = <<>>
    /\ width = 1
    /\ height = 1
    /\ x = 0
    /\ y = 0
    /\ crop_width = 0
    /\ crop_height = 0
    /\ warned = FALSE
    /\ writerSize = <<>>
    /\ frameSizes = {}
    /\ nOpen = 0

IdleCompress ==
    /\ cv_pc = "idle"
    /\ compression_level = "medium"
    /\ bitrate = ""
    /\ resolution = <<>>
    /\ encoded = FALSE
    /\ cv_exc = NoExc

\* a textual input that is absent or blank, not a number, or an integer
Missing == [kind |-> "missing", value |-> 0]
NotANumber == [kind |-> "text", value |-> 0]
IntText(n) == [kind |-> "int", value |-> n]

IdleMain ==
    /\ m_pc = "idle"
    /\ arg_multiplier = Missing
    /\ cfg_multiplier = Missing
    /\ arg_quality = ""
    /\ cfg_quality = ""
    /\ exapi = 0
    /\ sessions = {}
    /\ nvrCalls = <<>>
    /\ m_exc = NoExc
    /\ exit_status = -1

\* a datetime: <<year, month, day, time of day>>
NoDatetime == <<>>

IdleDT ==
    /\ dt_pc = "idle"
    /\ dt_date = <<1, 1>>
    /\ dt_start = 0
    /\ dt_end = 0
    /\ dt_now = NoDatetime
    /\ start_datetime = NoDatetime
    /\ end_datetime = NoDatetime

\* the answer of an endpoint: the validation that rejected the request, the
\* status code named where it was rejected (0: an exception without one),
\* the status code sent and, for a status request, the job status sent
Response(endpoint, rejected, named, code, body) ==
    [endpoint |-> endpoint, rejected |-> rejected, named |-> named,
     code |-> code, body |-> body]

NoResponse == Response("none", "none", 0, 0, "none")

IdleJobs ==
    /\ active_jobs = <<>>
    /\ scheduled = {}
    /\ j_running = 0
    /\ response = NoResponse

IdleProgress ==
    /\ g_pc = "idle"
    /\ g_request = "none"
    /\ cli = <<>>
    /\ returncode = 0
    /\ progress_percent = 0
    /\ since_incremental = 0
    /\ reported = -1
    /\ regressed = FALSE
    /\ g_exc = "none"

IdleNames ==
    /\ f_pc = "idle"
    /\ f_alias = <<>>
    /\ f_multiplier = 1
    /\ f_start = <<>>
    /\ f_name = <<>>
    /\ f_parsed = <<>>

IdleWeb == IdleDT /\ IdleJobs /\ IdleProgress /\ IdleNames

IdleCore == IdleExport /\ IdleTS /\ IdlePV /\ IdleCompress /\ IdleMain

(***************************************************************************)
(* export_request                                                          *)
(***************************************************************************)
\* any(int(camera['id']) == int(camera_id) for camera in cameras)
CameraInListUnchecked(cameras, id) == TRUE

CameraInList(cameras, id) == id \in cameras

\* `if not export_id`
Falsy(id) == id \in {NoneId, ""}

\* list_cameras, then the membership check
ListCameras ==
    /\ pc = "list_cameras"
    /\ nListCameras' = nListCameras + 1
    /\ lastCall' = "list_cameras"
    /\ \/ \* config.web fails or has no 'Cameras' key: not an ExacqvisionError
          /\ \E t \in {"RequestException", "KeyError", "ValueError"} :
                Raise(Exc(t, "list_cameras"))
          /\ cameraCheck' = "fail"
          /\ UNCHANGED cameraList
       \/ \E cameras \in SUBSET CameraIds :
            /\ cameraCheck' = "listed"
            /\ cameraList' = cameras
            /\ IF CameraInList(cameras, camera_id)
               THEN /\ pc' = "export_request"
                    /\ UNCHANGED <<exc, pending>>
               ELSE Raise(Exc("ExacqvisionError", "list_cameras"))
    /\ UNCHANGED <<camera_id, monotoneServer, num_of_retries, export_id, retries, ready_to_export,
                   progress, result, timedOut, nExportReq, nStatus, nDownload,
                   nDelete, deletedId, deleteFailed, polls>>
    /\ UNCHANGED <<tvars, pvars, cvars, mvars, wvars>>

\* the export request itself
SendExportRequest ==
    /\ pc = "export_request"
    /\ nExportReq' = nExportReq + 1
    /\ lastCall' = "export_request"
    /\ \/ \* RequestException / ValueError / KeyError are turned into ExacqvisionError
          /\ Raise(Exc("ExacqvisionError", "export_request"))
          /\ UNCHANGED export_id
       \/ \* a JSON body that is not an object: .get raises AttributeError
          /\ Raise(Exc("AttributeError", "export_request"))
          /\ UNCHANGED export_id
       \/ \E id \in ExportIdResponses :
            IF Falsy(id)
            THEN /\ Raise(Exc("ExacqvisionError", "export_request"))
                 /\ UNCHANGED export_id
            ELSE /\ export_id' = id
                 /\ pc' = "first_poll"
                 /\ UNCHANGED <<exc, pending>>
    /\ UNCHANGED <<cameraList, camera_id, monotoneServer, num_of_retries, retries, ready_to_export, progress,
                   result, cameraCheck, timedOut, nListCameras, nStatus, nDownload,
                   nDelete, deletedId, deleteFailed, polls>>
    /\ UNCHANGED <<tvars, pvars, cvars, mvars, wvars>>

(***************************************************************************)
(* export_status and the polling loop                                      *)
(***************************************************************************)
\* export_status: True exactly when progress == 100
IsReadyFromHalf(p) == p >= 50

IsReady(p) == p = ReadyProgress

\* the progress a status response may carry after one that carried prev
Reported(prev) ==
    IF monotoneServer THEN {v \in ProgressValues : v >= prev} ELSE ProgressValues

\* `while not ready_to_export and retries <= num_of_retries`
LoopCondStrict == ~ready_to_export /\ retries < num_of_retries

LoopCond == ~ready_to_export /\ retries <= num_of_retries

\* `if updated_progress == progress: retries += 1 else: retries = 0`
StallUpdateNoReset(r, prev, updated) == r + 1

StallUpdateNeverCounts(r, prev, updated) == 0

StallUpdate(r, prev, updated) == IF updated = prev THEN r + 1 ELSE 0

\* `if retries > num_of_retries`
StallExceeded == retries > num_of_retries

\* retries = 0; ready_to_export, progress = self.export_status(export_id)
FirstPoll ==
    /\ pc = "first_poll"
    /\ nStatus' = Min(nStatus + 1, PollCap)
    /\ lastCall' = "status"
    /\ \/ /\ \E t \in {"RequestException", "KeyError", "ValueError"} :
                Raise(Exc(t, "status"))
          /\ retries' = 0
          /\ UNCHANGED <<ready_to_export, progress, polls>>
       \/ \E p \in Reported(progress) :
            /\ retries' = 0
            /\ ready_to_export' = IsReady(p)
            /\ progress' = p
            /\ polls' = Remember(polls, p)
            /\ pc' = "loop"
            /\ UNCHANGED <<exc, pending>>
    /\ UNCHANGED <<cameraList, camera_id, monotoneServer, num_of_retries, export_id, result, cameraCheck,
                   timedOut, nListCameras, nExportReq, nDownload, nDelete,
                   deletedId, deleteFailed>>
    /\ UNCHANGED <<tvars, pvars, cvars, mvars, wvars>>

\* one iteration of the while loop
LoopPoll ==
    /\ pc = "loop"
    /\ LoopCond
    /\ nStatus' = Min(nStatus + 1, PollCap)
    /\ lastCall' = "status"
    /\ \/ /\ \E t \in {"RequestException", "KeyError", "ValueError"} :
                Raise(Exc(t, "status"))
          /\ UNCHANGED <<retries, ready_to_export, progress, polls>>
       \/ \E updated_progress \in Reported(progress) :
            /\ ready_to_export' = IsReady(updated_progress)
            /\ retries' = StallUpdate(retries, progress, updated_progress)
            /\ progress' = updated_progress
            /\ polls' = Remember(polls, updated_progress)
            /\ pc' = "loop"
            /\ UNCHANGED <<exc, pending>>
    /\ UNCHANGED <<cameraList, camera_id, monotoneServer, num_of_retries, export_id, result, cameraCheck,
                   timedOut, nListCameras, nExportReq, nDownload, nDelete,
                   deletedId, deleteFailed>>
    /\ UNCHANGED <<tvars, pvars, cvars, mvars, wvars>>

\* the sleep(5) between two status polls is interrupted (KeyboardInterrupt):
\* the exception passes `except ExacqvisionError` and enters the finally block
InterruptWait ==
    /\ pc = "loop"
    /\ LoopCond
    /\ Raise(Exc("KeyboardInterrupt", "sleep"))
    /\ UNCHANGED <<cameraList, lastCall, camera_id, monotoneServer, num_of_retries, export_id, retries, ready_to_export,
                   progress, result, cameraCheck, timedOut, nListCameras, nExportReq, nStatus,
                   nDownload, nDelete, deletedId, deleteFailed, polls>>
    /\ UNCHANGED <<tvars, pvars, cvars, mvars, wvars>>

\* raise ExacqvisionTimeoutError(...)
StallTimeout ==
    /\ pc = "loop"
    /\ ~LoopCond
    /\ StallExceeded
    /\ timedOut' = TRUE
    /\ Raise(Exc("ExacqvisionTimeoutError", "stall"))
    /\ UNCHANGED <<cameraList, lastCall, camera_id, monotoneServer, num_of_retries, export_id, retries, ready_to_export,
                   progress, result, cameraCheck, nListCameras, nExportReq, nStatus,
                   nDownload, nDelete, deletedId, deleteFailed, polls>>
    /\ UNCHANGED <<tvars, pvars, cvars, mvars, wvars>>

\* return self.export_download(export_id)
ExportDownload ==
    /\ pc = "loop"
    /\ ~LoopCond
    /\ ~StallExceeded
    /\ nDownload' = nDownload + 1
    /\ lastCall' = "download"
    /\ \/ \* no Content-Disposition header, a connection error, an unwritable file
          /\ \E t \in {"AttributeError", "RequestException", "OSError"} :
                Raise(Exc(t, "download"))
          /\ UNCHANGED result
       \/ /\ result' = "file"
          /\ pc' = "finally"
          /\ UNCHANGED <<exc, pending>>
    /\ UNCHANGED <<cameraList, camera_id, monotoneServer, num_of_retries, export_id, retries, ready_to_export,
                   progress, cameraCheck, timedOut, nListCameras, nExportReq,
                   nStatus, nDelete, deletedId, deleteFailed, polls>>
    /\ UNCHANGED <<tvars, pvars, cvars, mvars, wvars>>

(***************************************************************************)
(* finally: if export_id: sleep(2); self.export_delete(export_id)          *)
(***************************************************************************)
NeedsCleanupOnSuccessOnly == ~Falsy(export_id) /\ exc = NoExc

NeedsCleanupAlways == TRUE

NeedsCleanupUnlessRaised == ~Falsy(export_id) /\ pending = NoExc

NeedsCleanup == ~Falsy(export_id)

ExportDelete ==
    /\ pc = "finally"
    /\ NeedsCleanup
    /\ nDelete' = nDelete + 1
    /\ lastCall' = "delete"
    /\ deletedId' = export_id
    /\ \/ \* the delete request succeeds: what was propagating keeps propagating
          /\ UNCHANGED <<exc, result, deleteFailed>>
       \/ \* requests raises inside finally: it replaces whatever was propagating
          /\ exc' = Exc("RequestException", "delete")
          /\ result' = ""
          /\ deleteFailed' = TRUE
    /\ pc' = "done"
    /\ UNCHANGED <<cameraList, camera_id, monotoneServer, num_of_retries, export_id, retries, ready_to_export,
                   progress, pending, cameraCheck, timedOut, nListCameras,
                   nExportReq, nStatus, nDownload, polls>>
    /\ UNCHANGED <<tvars, pvars, cvars, mvars, wvars>>

FinallyNoExport ==
    /\ pc = "finally"
    /\ ~NeedsCleanup
    /\ pc' = "done"
    /\ UNCHANGED <<cameraList, lastCall, camera_id, monotoneServer, num_of_retries, export_id, retries, ready_to_export,
                   progress, exc, pending, result, cameraCheck, timedOut,
                   nListCameras, nExportReq, nStatus, nDownload, nDelete,
                   deletedId, deleteFailed, polls>>
    /\ UNCHANGED <<tvars, pvars, cvars, mvars, wvars>>

(***************************************************************************)
(* Specification of get_video                                              *)
(***************************************************************************)
\* the state in which get_video is entered
EnterExport ==
    /\ pc = "list_cameras"
    /\ camera_id \in CameraIds
    /\ num_of_retries \in 0..MaxRetries
    /\ export_id = NoneId
    /\ retries = 0
    /\ ready_to_export = FALSE
    /\ progress = 0
    /\ exc = NoExc
    /\ pending = NoExc
    /\ result = ""
    /\ cameraCheck = "unknown"
    /\ cameraList = {}
    /\ lastCall = "none"
    /\ timedOut = FALSE
    /\ nListCameras = 0
    /\ nExportReq = 0
    /\ nStatus = 0
    /\ nDownload = 0
    /\ nDelete = 0
    /\ deletedId = NoneId
    /\ deleteFailed = FALSE
    /\ polls = <<>>

\* Spec: an NVR that may report any progress in any order
InitExport == EnterExport /\ monotoneServer = FALSE

\* SpecMono: an NVR whose progress never decreases
InitMono == EnterExport /\ monotoneServer = TRUE

Init == InitExport /\ IdleTS /\ IdlePV /\ IdleCompress /\ IdleMain /\ IdleWeb

Next ==
    \/ ListCameras
    \/ SendExportRequest
    \/ FirstPoll
    \/ LoopPoll
    \/ InterruptWait
    \/ StallTimeout
    \/ ExportDownload
    \/ ExportDelete
    \/ FinallyNoExport

Spec == Init /\ [][Next]_vars

\* the interpreter keeps executing get_video: every enabled step is taken
FairSpec == Spec /\ WF_vars(Next)

InitSpecMono == InitMono /\ IdleTS /\ IdlePV /\ IdleCompress /\ IdleMain /\ IdleWeb

\* get_video against an NVR whose progress never decreases
SpecMono == InitSpecMono /\ [][Next]_vars /\ WF_vars(Next)

(***************************************************************************)
(* get_timestamps                                                          *)
(***************************************************************************)
\* instants of the NVR's clips (GMT seconds)
Times == 0..MaxTime
\* offsets of the configured timezone from GMT, in seconds
TzOffsets == {0, 1}
\* local wall-clock seconds a requested window is drawn from
LocalTimes == 0..(MaxTime + 1)
\* a clip as the NVR reports it: startTime <= endTime
Clips == {c \in Times \X Times : c[1] <= c[2]}
\* search responses: at most MaxClips clips, in any order, overlapping or not
ClipLists == UNION {[1..n -> Clips] : n \in 0..MaxClips}

Range(f) == {f[i] : i \in DOMAIN f}

\* convert_GMT_to_local: attach GMT, convert to self.timezone
ConvertGMTToLocal(t, tz) == t + tz

\* generate_time_range: every second from start_time to stop_time, inclusive
RECURSIVE TimesFromTo(_, _)
TimesFromTo(a, b) == IF a <= b THEN <<a>> \o TimesFromTo(a + 1, b) ELSE <<>>

GenerateTimeRangeExclusive(start_time, stop_time, tz) ==
    TimesFromTo(ConvertGMTToLocal(start_time, tz), ConvertGMTToLocal(stop_time, tz) - 1)

GenerateTimeRange(start_time, stop_time, tz) ==
    TimesFromTo(ConvertGMTToLocal(start_time, tz), ConvertGMTToLocal(stop_time, tz))

\* [item for sublist in ranged_timestamps for item in sublist]
RECURSIVE Flatten(_)
Flatten(lists) ==
    IF lists = <<>> THEN <<>> ELSE Head(lists) \o Flatten(Tail(lists))

\* list(dict.fromkeys(flattened_timestamps)): first occurrences, in order
RECURSIVE FirstOccurrences(_)
FirstOccurrences(s) ==
    IF s = <<>> THEN <<>>
    ELSE LET front == FirstOccurrences(SubSeq(s, 1, Len(s) - 1))
             last == s[Len(s)]
         IN IF last \in Range(front) THEN front ELSE Append(front, last)

UniqueTimestampsKeepAll(flattened) == flattened

UniqueTimestamps(flattened) == FirstOccurrences(flattened)

\* [x for x in unique_timestamps if x>=start and x<=stop]
InWindow(stamp, start, stop) == stamp >= start /\ stamp <= stop

FinishedTimestamps(unique, start, stop) ==
    SelectSeq(unique, LAMBDA stamp : InWindow(stamp, start, stop))

\* create_search: the search request and its response
CreateSearch ==
    /\ ts_pc = "search"
    /\ \/ \* RequestException / ValueError / KeyError become ExacqvisionError
          /\ ts_exc' = Exc("ExacqvisionError", "search")
          /\ ts_pc' = "done"
          /\ UNCHANGED clips
       \/ \* a response without videoInfo[0]['clips']
          /\ \E t \in {"KeyError", "IndexError"} : ts_exc' = Exc(t, "clips")
          /\ ts_pc' = "done"
          /\ UNCHANGED clips
       \/ \E cs \in ClipLists :
            /\ clips' = cs
            /\ ts_pc' = "expand"
            /\ UNCHANGED ts_exc
    /\ UNCHANGED <<ts_start, ts_stop, tz_offset, ts_result>>
    /\ UNCHANGED <<evars, pvars, cvars, mvars, wvars>>

\* expand the clips into seconds, flatten, remove duplicates, cut to the window
ResolveTimestamps ==
    /\ ts_pc = "expand"
    /\ LET ranged_timestamps ==
               [i \in 1..Len(clips) |->
                    GenerateTimeRange(clips[i][1], clips[i][2], tz_offset)]
           flattened_timestamps == Flatten(ranged_timestamps)
           unique_timestamps == UniqueTimestamps(flattened_timestamps)
       IN ts_result' = FinishedTimestamps(unique_timestamps, ts_start, ts_stop)
    /\ ts_pc' = "done"
    /\ UNCHANGED <<ts_start, ts_stop, tz_offset, clips, ts_exc>>
    /\ UNCHANGED <<evars, pvars, cvars, mvars, wvars>>

InitTS ==
    /\ ts_pc = "search"
    /\ ts_start \in LocalTimes
    /\ ts_stop \in LocalTimes
    /\ ts_start <= ts_stop
    /\ tz_offset \in TzOffsets
    /\ clips = <<>>
    /\ ts_result = <<>>
    /\ ts_exc = NoExc

NextTS ==
    \/ CreateSearch
    \/ ResolveTimestamps

InitSpecTS == IdleExport /\ InitTS /\ IdlePV /\ IdleCompress /\ IdleMain /\ IdleWeb

SpecTS == InitSpecTS /\ [][NextTS]_vars

(***************************************************************************)
(* process_video                                                           *)
(***************************************************************************)
\* what process_video only reads: its settings and the source file
pv_inputs == <<multiplier, nFrames, canOpen, number_of_timestamps, crop,
               width, height>>

\* the locals of the crop set-up
pv_region == <<crop_dimensions, x, y, crop_width, crop_height, warned>>

\* `if multiplier <= 0 or not isinstance(multiplier, int)`
BadMultiplierNegativeOnly(m) == m < 0

BadMultiplier(m) == m <= 0

\* `if count % multiplier == 0`
WriteThisFrameShifted(c, m) == (c + 1) % m = 0

WriteThisFrameAlways(c, m) == TRUE

WriteThisFrame(c, m) == c % m = 0

\* int(frame_position / total_frames * (number_of_timestamps - 1)), in exact
\* arithmetic
TimestampIndexNoOffset(frame_position, total_frames, n) ==
    (frame_position * n) \div total_frames

TimestampIndex(frame_position, total_frames, n) ==
    (frame_position * (n - 1)) \div total_frames

Max(a, b) == IF a > b THEN a ELSE b

\* a crop region ((x, y), (w, h))
Region(rx, ry, rw, rh) == <<<<rx, ry>>, <<rw, rh>>>>

\* regions a configuration can hold: origin inside 0..MaxDim, positive size
ConfiguredRegions ==
    {Region(rx, ry, rw, rh) : rx \in 0..MaxDim, ry \in 0..MaxDim,
                              rw \in 1..(MaxDim + 1), rh \in 1..(MaxDim + 1)}

\* select_crop: the rectangle the operator draws on the first frame lies
\* inside it; a cancelled selection is the empty rectangle at the origin
SelectableRegions(fw, fh) ==
    {r \in ConfiguredRegions : r[1][1] + r[2][1] <= fw /\ r[1][2] + r[2][2] <= fh}
        \cup {Region(0, 0, 0, 0)}

\* `if x + crop_width > width or y + crop_height > height`
Exceeds(r, fw, fh) == r[1][1] + r[2][1] > fw \/ r[1][2] + r[2][2] > fh

\* crop_width = min(crop_width, width - x); crop_height = min(crop_height, height - y)
ClampedSize(r, fw, fh) == <<Min(r[2][1], fw - r[1][1]), Min(r[2][2], fh - r[1][2])>>

\* crop_width, crop_height after the check of the region against the frame
EffectiveSizeUnclamped(r, fw, fh) == r[2]

EffectiveSize(r, fw, fh) ==
    IF Exceeds(r, fw, fh) THEN ClampedSize(r, fw, fh) ELSE r[2]

\* length of the numpy slice a[lo : lo + len] of an axis of `size` elements,
\* for lo >= 0 and lo + len >= 0
SliceLenShort(lo, len, size) == Max(0, Min(lo + len, size) - Min(lo, size) - 1)

SliceLen(lo, len, size) == Max(0, Min(lo + len, size) - Min(lo, size))

\* <<width, height>> of finished_frame
FinishedFrameSize ==
    IF crop
    THEN <<SliceLen(x, crop_width, width), SliceLen(y, crop_height, height)>>
    ELSE <<width, height>>

\* the multiplier check
CheckMultiplier ==
    /\ pv_pc = "start"
    /\ IF BadMultiplier(multiplier)
       THEN /\ pv_exc' = Exc("TypeError", "multiplier")
            /\ pv_pc' = "raised"
       ELSE /\ pv_pc' = "open"
            /\ UNCHANGED pv_exc
    /\ UNCHANGED <<pv_inputs, pv_region, stampIndex, success, count, written,
                   readerOpen, writerOpen, writerSize, frameSizes, nOpen>>
    /\ UNCHANGED <<evars, tvars, cvars, mvars, wvars>>

\* cv2.VideoCapture, the isOpened check, the first vid.read() and frame.shape
OpenSource ==
    /\ pv_pc = "open"
    /\ nOpen' = nOpen + 1
    /\ IF ~canOpen
       THEN \* print("Error: Could not open video file."); exit()
            /\ pv_exc' = Exc("SystemExit", "open")
            /\ pv_pc' = "raised"
            /\ UNCHANGED <<success, readerOpen>>
       ELSE /\ readerOpen' = TRUE
            /\ success' = (nFrames > 0)
            /\ IF nFrames > 0
               THEN /\ pv_pc' = "crop"
                    /\ UNCHANGED pv_exc
               ELSE \* frame is None: frame.shape raises AttributeError
                    /\ pv_exc' = Exc("AttributeError", "first_frame")
                    /\ pv_pc' = "raised"
    /\ UNCHANGED <<pv_inputs, pv_region, stampIndex, count, written, writerOpen,
                   writerSize, frameSizes>>
    /\ UNCHANGED <<evars, tvars, cvars, mvars, wvars>>

\* the crop set-up: `if settings.crop: ... else: ...`
SetupCrop ==
    /\ pv_pc = "crop"
    /\ IF crop
       THEN \E selected \in SelectableRegions(width, height) :
              LET region == IF crop_dimensions = <<>>
                            THEN selected
                            ELSE crop_dimensions
              IN /\ crop_dimensions' = region
                 /\ x' = region[1][1]
                 /\ y' = region[1][2]
                 /\ crop_width' = EffectiveSize(region, width, height)[1]
                 /\ crop_height' = EffectiveSize(region, width, height)[2]
                 /\ warned' = Exceeds(region, width, height)
       ELSE /\ crop_width' = width
            /\ crop_height' = height
            /\ x' = 0
            /\ y' = 0
            /\ UNCHANGED <<crop_dimensions, warned>>
    /\ pv_pc' = "setup"
    /\ UNCHANGED <<pv_inputs, stampIndex, success, count, written, readerOpen,
                   writerOpen, writerSize, frameSizes, nOpen, pv_exc>>
    /\ UNCHANGED <<evars, tvars, cvars, mvars, wvars>>

\* cv2.VideoWriter(..., (crop_width, crop_height)) and count = 0
CreateWriter ==
    /\ pv_pc = "setup"
    /\ writerOpen' = TRUE
    /\ writerSize' = <<crop_width, crop_height>>
    /\ count' = 0
    /\ pv_pc' = "loop"
    /\ UNCHANGED <<pv_inputs, pv_region, stampIndex, success, written,
                   readerOpen, frameSizes, nOpen, pv_exc>>
    /\ UNCHANGED <<evars, tvars, cvars, mvars, wvars>>

\* one iteration of `while success`
ProcessFrame ==
    /\ pv_pc = "loop"
    /\ success
    /\ LET \* CAP_PROP_POS_FRAMES: index of the frame to be decoded next
           frame_position == count + 1
           \* CAP_PROP_FRAME_COUNT
           total_frames == nFrames
       IN stampIndex' =
            IF number_of_timestamps > 0
            THEN TimestampIndex(frame_position, total_frames, number_of_timestamps)
            ELSE stampIndex
    /\ IF WriteThisFrame(count, multiplier)
       THEN /\ written' = Append(written, count)
            /\ frameSizes' = frameSizes \cup {FinishedFrameSize}
       ELSE UNCHANGED <<written, frameSizes>>
    /\ success' = (count + 1 < nFrames)
    /\ count' = count + 1
    /\ UNCHANGED <<pv_inputs, pv_region, pv_pc, readerOpen, writerOpen,
                   writerSize, nOpen, pv_exc>>
    /\ UNCHANGED <<evars, tvars, cvars, mvars, wvars>>

\* an iteration that raises: the overlay calls (cv2.getTextSize, cv2.putText)
\* when timestamps are drawn, or an interrupt at any frame.  No handler and
\* no finally block encloses the loop, so the exception leaves process_video
\* from the statement that raised it.
FrameFails ==
    /\ pv_pc = "loop"
    /\ success
    /\ \E e \in {Exc("KeyboardInterrupt", "loop")}
                  \cup (IF number_of_timestamps > 0
                        THEN {Exc("cv2.error", "loop")}
                        ELSE {}) :
         pv_exc' = e
    /\ pv_pc' = "raised"
    /\ UNCHANGED <<pv_inputs, pv_region, stampIndex, success, count, written,
                   readerOpen, writerOpen, writerSize, frameSizes, nOpen>>
    /\ UNCHANGED <<evars, tvars, cvars, mvars, wvars>>

\* pbar.close(); writer.release(); vid.release(); return output_video_path
ReleaseAndReturn ==
    /\ pv_pc = "loop"
    /\ ~success
    /\ writerOpen' = FALSE
    /\ readerOpen' = FALSE
    /\ pv_pc' = "done"
    /\ UNCHANGED <<pv_inputs, pv_region, stampIndex, success, count, written,
                   writerSize, frameSizes, nOpen, pv_exc>>
    /\ UNCHANGED <<evars, tvars, cvars, mvars, wvars>>

\* the locals of process_video before it runs
FreshPV ==
    /\ success = FALSE
    /\ count = 0
    /\ written = <<>>
    /\ stampIndex = -1
    /\ readerOpen = FALSE
    /\ writerOpen = FALSE
    /\ pv_exc = NoExc
    /\ x = 0
    /\ y = 0
    /\ crop_width = 0
    /\ crop_height = 0
    /\ warned = FALSE
    /\ writerSize = <<>>
    /\ frameSizes = {}
    /\ nOpen = 0

\* the state in which process_video is entered
EnterPV == pv_pc = "start" /\ FreshPV

\* SpecPV: every multiplier, source length and timestamp count, on a square
\* frame with no region, a region inside the frame or one exceeding it
InitPV ==
    /\ EnterPV
    /\ multiplier \in (-1)..MaxMultiplier
    /\ nFrames \in 0..MaxFrames
    /\ canOpen \in BOOLEAN
    /\ number_of_timestamps \in 0..MaxStamps
    /\ crop \in BOOLEAN
    /\ crop_dimensions \in {<<>>, Region(0, 0, MaxDim, MaxDim),
                            Region(1, 1, MaxDim, MaxDim)}
    /\ width = MaxDim
    /\ height = MaxDim

NextPV ==
    \/ CheckMultiplier
    \/ OpenSource
    \/ SetupCrop
    \/ CreateWriter
    \/ ProcessFrame
    \/ FrameFails
    \/ ReleaseAndReturn

InitSpecPV == IdleExport /\ IdleTS /\ InitPV /\ IdleCompress /\ IdleMain /\ IdleWeb

SpecPV == InitSpecPV /\ [][NextPV]_vars

(***************************************************************************)
(* compress_video                                                          *)
(***************************************************************************)
QualityTiers == {"low", "medium", "high"}

\* values settings.compression_level may hold: the tiers and one that is none
Qualities == QualityTiers \cup {"ultra"}

\* the bitrate column of the quality table
TableBitrate(quality) ==
    CASE quality = "low" -> "250K"
      [] quality = "medium" -> "500K"
      [] quality = "high" -> "1M"

\* the resolution column of the quality table
TableResolutionUniform(quality) == <<1920, 1080>>

TableResolution(quality) ==
    CASE quality = "low" -> <<1280, 720>>
      [] quality = "medium" -> <<1920, 1080>>
      [] quality = "high" -> <<1920, 1080>>

\* the else branch of the table: raise ValueError
UnknownQuality(quality) == quality \notin QualityTiers

\* `if settings.crop: resolution = settings.crop_dimensions[1]`
TargetResolution(quality) ==
    IF crop THEN crop_dimensions[2] ELSE TableResolution(quality)

\* the quality table and the crop override
SelectQuality ==
    /\ cv_pc = "start"
    /\ IF UnknownQuality(compression_level)
       THEN /\ cv_exc' = Exc("ValueError", "quality")
            /\ cv_pc' = "raised"
            /\ UNCHANGED <<bitrate, resolution>>
       ELSE /\ bitrate' = TableBitrate(compression_level)
            /\ IF crop /\ crop_dimensions = <<>>
               THEN \* None[1]: 'NoneType' object is not subscriptable
                    /\ resolution' = TableResolution(compression_level)
                    /\ cv_exc' = Exc("TypeError", "crop_dimensions")
                    /\ cv_pc' = "raised"
               ELSE /\ resolution' = TargetResolution(compression_level)
                    /\ cv_pc' = "encode"
                    /\ UNCHANGED cv_exc
    /\ UNCHANGED <<compression_level, encoded>>
    /\ UNCHANGED <<evars, tvars, pvars, mvars, wvars>>

\* VideoFileClip(..., target_resolution=resolution) and write_videofile:
\* the encoder writes the output file, or fails on its input
Encode ==
    /\ cv_pc = "encode"
    /\ \/ /\ encoded' = TRUE
          /\ cv_pc' = "done"
          /\ UNCHANGED cv_exc
       \/ /\ cv_exc' = Exc("OSError", "encode")
          /\ cv_pc' = "raised"
          /\ UNCHANGED encoded
    /\ UNCHANGED <<compression_level, bitrate, resolution>>
    /\ UNCHANGED <<evars, tvars, pvars, mvars, wvars>>

\* the state in which compress_video is entered
EnterCompress ==
    /\ bitrate = ""
    /\ resolution = <<>>
    /\ encoded = FALSE
    /\ cv_exc = NoExc

(***************************************************************************)
(* process_video followed by compress_video, as the extract command runs   *)
(* them: compress_video(process_video(...)) on the same settings object    *)
(***************************************************************************)
\* compress_video(processed_video_path): entered when process_video returned
CallCompress ==
    /\ pv_pc = "done"
    /\ cv_pc = "idle"
    /\ cv_pc' = "start"
    /\ UNCHANGED <<compression_level, bitrate, resolution, encoded, cv_exc>>
    /\ UNCHANGED <<evars, tvars, pvars, mvars, wvars>>

\* SpecTransform: every frame size and crop region, on short sources at
\* multiplier 1 without timestamps
InitTransform ==
    /\ EnterPV
    /\ multiplier = 1
    /\ nFrames \in 1..MaxCropFrames
    /\ canOpen = TRUE
    /\ number_of_timestamps = 0
    /\ crop \in BOOLEAN
    /\ crop_dimensions \in IF crop
                           THEN ConfiguredRegions \cup {<<>>}
                           ELSE {<<>>, Region(0, 0, 1, 1)}
    /\ width \in 1..MaxDim
    /\ height \in 1..MaxDim
    /\ cv_pc = "idle"
    /\ compression_level \in Qualities
    /\ EnterCompress

NextTransform ==
    \/ CheckMultiplier
    \/ OpenSource
    \/ SetupCrop
    \/ CreateWriter
    \/ ProcessFrame
    \/ FrameFails
    \/ ReleaseAndReturn
    \/ CallCompress
    \/ SelectQuality
    \/ Encode

InitSpecTransform == IdleExport /\ IdleTS /\ InitTransform /\ IdleMain /\ IdleWeb

SpecTransform == InitSpecTransform /\ [][NextTransform]_vars

(***************************************************************************)
(* main: the extract command                                               *)
(***************************************************************************)
\* multipliers the command line or the configuration file may name
MultiplierInputs ==
    {Missing, NotANumber} \cup {IntText(n) : n \in (-1)..MaxCropFrames}

\* qualities the command line or the configuration file may name ("" is
\* absent or blank)
QualityInputs == Qualities \cup {""}

\* set_value for timelapse_multiplier, then int(...): command line, then
\* configuration file, then the class default
ResolveMultiplier(arg, cfg) ==
    IF arg.kind = "int" THEN arg.value
    ELSE IF cfg.kind = "int" THEN cfg.value
    ELSE DefaultMultiplier

\* set_value for compression_level
ResolveQualityConfigFirst(arg, cfg) ==
    IF cfg # "" THEN cfg
    ELSE IF arg # "" THEN arg
    ELSE DefaultQuality

ResolveQuality(arg, cfg) ==
    IF arg # "" THEN arg
    ELSE IF cfg # "" THEN cfg
    ELSE DefaultQuality

\* argparse: --multiplier has type=int, --quality has choices
ArgparseRejects ==
    \/ arg_multiplier.kind = "text"
    \/ arg_quality \notin QualityTiers \cup {""}

\* validate_config: timelapse_multiplier, when present, must parse as a
\* positive integer; compression_level is only reported when absent
ConfigFatal ==
    \/ cfg_multiplier.kind = "text"
    \/ cfg_multiplier.kind = "int" /\ cfg_multiplier.value <= 0

\* an NVR request issued by main, with the session object's token
Call(name, token) == [call |-> name, token |-> token]

\* the process ends
Exit(status) ==
    /\ m_pc' = "exit"
    /\ exit_status' = status

m_inputs == <<arg_multiplier, cfg_multiplier, arg_quality, cfg_quality>>

\* parse_arguments
ParseArguments ==
    /\ m_pc = "parse"
    /\ IF ArgparseRejects
       THEN Exit(2)
       ELSE /\ m_pc' = "config"
            /\ UNCHANGED exit_status
    /\ UNCHANGED <<m_inputs, exapi, sessions, nvrCalls, m_exc>>
    /\ UNCHANGED <<evars, tvars, pvars, cvars, wvars>>

\* import_config: exit(1) when validate_config reports a fatal error
ImportConfig ==
    /\ m_pc = "config"
    /\ IF ConfigFatal
       THEN Exit(1)
       ELSE /\ m_pc' = "settings"
            /\ UNCHANGED exit_status
    /\ UNCHANGED <<m_inputs, exapi, sessions, nvrCalls, m_exc>>
    /\ UNCHANGED <<evars, tvars, pvars, cvars, wvars>>

\* settings = Settings.from_args_and_config(args, config); crop is the
\* command line's flag and crop_dimensions the configuration's value, both
\* taken as they are
AssembleSettings ==
    /\ m_pc = "settings"
    /\ multiplier' = ResolveMultiplier(arg_multiplier, cfg_multiplier)
    /\ compression_level' = ResolveQuality(arg_quality, cfg_quality)
    /\ m_pc' = "login"
    /\ UNCHANGED <<m_inputs, exapi, sessions, nvrCalls, m_exc, exit_status>>
    /\ UNCHANGED <<pv_pc, nFrames, canOpen, number_of_timestamps, crop, width,
                   height, pv_region, stampIndex, success, count, written,
                   readerOpen, writerOpen, writerSize, frameSizes, nOpen, pv_exc>>
    /\ UNCHANGED <<cv_pc, bitrate, resolution, encoded, cv_exc>>
    /\ UNCHANGED <<evars, tvars, wvars>>

\* exapi = Exacqvision(...): the constructor logs in.  It stands before the
\* try statement, so a login that raises ends the run with a traceback.
Login ==
    /\ m_pc = "login"
    /\ nvrCalls' = Append(nvrCalls, Call("login", 0))
    /\ \/ /\ exapi' = 1
          /\ sessions' = sessions \cup {1}
          /\ m_pc' = "get_video"
          /\ UNCHANGED <<m_exc, exit_status>>
       \/ /\ m_exc' = Exc("KeyError", "login")
          /\ Exit(1)
          /\ UNCHANGED <<exapi, sessions>>
    /\ UNCHANGED m_inputs
    /\ UNCHANGED <<evars, tvars, pvars, cvars, wvars>>

\* how a call inside the try statement ends: it returns, raises an
\* ExacqvisionError, or raises something else
CallOutcomes(phase) ==
    {NoExc, Exc("ExacqvisionError", phase), Exc("KeyError", phase)}

\* extracted_video_name = exapi.get_video(...)
GetVideo ==
    /\ m_pc = "get_video"
    /\ nvrCalls' = Append(nvrCalls, Call("export", exapi))
    /\ \E e \in CallOutcomes("get_video") :
         /\ m_exc' = e
         /\ m_pc' = IF e = NoExc THEN "relogin" ELSE "finally"
    /\ UNCHANGED <<m_inputs, exapi, sessions, exit_status>>
    /\ UNCHANGED <<evars, tvars, pvars, cvars, wvars>>

\* exapi = Exacqvision(...) inside the try statement: a second login; the
\* name exapi is rebound only when the constructor returns
Relogin ==
    /\ m_pc = "relogin"
    /\ nvrCalls' = Append(nvrCalls, Call("login", 0))
    /\ \/ /\ exapi' = 2
          /\ sessions' = sessions \cup {2}
          /\ m_pc' = "get_timestamps"
          /\ UNCHANGED m_exc
       \/ /\ m_exc' = Exc("KeyError", "login")
          /\ m_pc' = "finally"
          /\ UNCHANGED <<exapi, sessions>>
    /\ UNCHANGED <<m_inputs, exit_status>>
    /\ UNCHANGED <<evars, tvars, pvars, cvars, wvars>>

\* video_timestamps = exapi.get_timestamps(...)
GetTimestamps ==
    /\ m_pc = "get_timestamps"
    /\ nvrCalls' = Append(nvrCalls, Call("search", exapi))
    /\ \E e \in CallOutcomes("get_timestamps") :
         /\ m_exc' = e
         /\ m_pc' = "finally"
         /\ IF e = NoExc
            THEN number_of_timestamps' \in {0, 1}
            ELSE UNCHANGED number_of_timestamps
    /\ UNCHANGED <<m_inputs, exapi, sessions, exit_status>>
    /\ UNCHANGED <<pv_pc, multiplier, nFrames, canOpen, crop, width, height,
                   pv_region, stampIndex, success, count, written, readerOpen,
                   writerOpen, writerSize, frameSizes, nOpen, pv_exc>>
    /\ UNCHANGED <<evars, tvars, cvars, wvars>>

\* the statements after the try statement run only when nothing is
\* propagating out of it: neither the SystemExit of the except clause's
\* exit(1) nor an exception the clause did not catch
ContinuesAlways(e) == TRUE

Continues(e) == e = NoExc

\* finally: exapi.logout(); then exit(1) of the except clause, the
\* propagating exception, or process_video(extracted_video_name, ...)
Logout ==
    /\ m_pc = "finally"
    /\ nvrCalls' = Append(nvrCalls, Call("logout", exapi))
    /\ sessions' = sessions \ {exapi}
    /\ IF Continues(m_exc)
       THEN /\ m_pc' = "process"
            /\ pv_pc' = "start"
            /\ UNCHANGED exit_status
       ELSE /\ Exit(1)
            /\ UNCHANGED pv_pc
    /\ UNCHANGED <<m_inputs, exapi, m_exc>>
    /\ UNCHANGED <<pv_inputs, pv_region, stampIndex, success, count, written,
                   readerOpen, writerOpen, writerSize, frameSizes, nOpen, pv_exc>>
    /\ UNCHANGED <<evars, tvars, cvars, wvars>>

\* main returns after compress_video, or an exception of process_video or
\* compress_video ends the run
Finish ==
    /\ m_pc = "process"
    /\ \/ /\ cv_pc = "done"
          /\ Exit(0)
          /\ UNCHANGED m_exc
       \/ /\ pv_pc = "raised"
          /\ m_exc' = pv_exc
          /\ Exit(IF pv_exc.type = "SystemExit" THEN 0 ELSE 1)
       \/ /\ cv_pc = "raised"
          /\ m_exc' = cv_exc
          /\ Exit(1)
    /\ UNCHANGED <<m_inputs, exapi, sessions, nvrCalls>>
    /\ UNCHANGED <<evars, tvars, pvars, cvars, wvars>>

\* SpecMain: every source of the multiplier and of the quality, on short
\* sources with cropping off or a configured region
InitMain ==
    /\ m_pc = "parse"
    /\ arg_multiplier \in MultiplierInputs
    /\ cfg_multiplier \in MultiplierInputs
    /\ arg_quality \in QualityInputs
    /\ cfg_quality \in QualityInputs
    /\ exapi = 0
    /\ sessions = {}
    /\ nvrCalls = <<>>
    /\ m_exc = NoExc
    /\ exit_status = -1
    /\ pv_pc = "idle"
    /\ FreshPV
    /\ multiplier = DefaultMultiplier
    /\ nFrames \in 1..MaxCropFrames
    /\ canOpen \in BOOLEAN
    /\ number_of_timestamps = 0
    /\ crop \in BOOLEAN
    /\ crop_dimensions = Region(0, 0, 1, 1)
    /\ width = MaxDim
    /\ height = MaxDim
    /\ cv_pc = "idle"
    /\ compression_level = DefaultQuality
    /\ EnterCompress

NextMain ==
    \/ ParseArguments
    \/ ImportConfig
    \/ AssembleSettings
    \/ Login
    \/ GetVideo
    \/ Relogin
    \/ GetTimestamps
    \/ Logout
    \/ CheckMultiplier
    \/ OpenSource
    \/ SetupCrop
    \/ CreateWriter
    \/ ProcessFrame
    \/ FrameFails
    \/ ReleaseAndReturn
    \/ CallCompress
    \/ SelectQuality
    \/ Encode
    \/ Finish

InitSpecMain == IdleExport /\ IdleTS /\ InitMain /\ IdleWeb

SpecMain == InitSpecMain /\ [][NextMain]_vars

(***************************************************************************)
(* convert_input_to_datetime                                               *)
(*                                                                         *)
(* A datetime is <<year, month, day, time of day>>; the time of day is one *)
(* of the slots 0..MaxSlot.  dateutil's parse fills the year that the date *)
(* string leaves out with the current year.                                *)
(***************************************************************************)
SlotsPerDay == MaxSlot + 1

TimesOfDay == 0..MaxSlot

\* a leap year and the year after one
CurrentYears == {2024, 2025}

IsLeap(year) == (year % 4 = 0 /\ year % 100 # 0) \/ year % 400 = 0

DaysInMonth(year, month) ==
    IF month = 2 THEN (IF IsLeap(year) THEN 29 ELSE 28)
    ELSE IF month \in {4, 6, 9, 11} THEN 30 ELSE 31

\* the dates of a year that the model draws from: the ends of the year, the
\* days around the end of February and a day in the middle
CalendarDates(year) ==
    {<<1, 1>>, <<2, 28>>, <<3, 1>>, <<6, 15>>, <<12, 31>>}
        \cup (IF IsLeap(year) THEN {<<2, 29>>} ELSE {})

Datetime(year, date, time) == <<year, date[1], date[2], time>>

\* a > b on datetimes
Later(a, b) ==
    \/ a[1] > b[1]
    \/ a[1] = b[1] /\ a[2] > b[2]
    \/ a[1] = b[1] /\ a[2] = b[2] /\ a[3] > b[3]
    \/ a[1] = b[1] /\ a[2] = b[2] /\ a[3] = b[3] /\ a[4] > b[4]

RECURSIVE DaysBeforeMonth(_, _)
DaysBeforeMonth(year, month) ==
    IF month = 1 THEN 0
    ELSE DaysBeforeMonth(year, month - 1) + DaysInMonth(year, month - 1)

DaysBeforeYear(year) ==
    (year - 1) * 365 + ((year - 1) \div 4) - ((year - 1) \div 100)
        + ((year - 1) \div 400)

\* the position of a datetime on the time line, in slots
SlotOf(dt) ==
    (DaysBeforeYear(dt[1]) + DaysBeforeMonth(dt[1], dt[2]) + dt[3]) * SlotsPerDay
        + dt[4]

\* dt - relativedelta(years=1): the same month and time of day one year
\* earlier, the day cut to the length of that month
MinusYear(dt) ==
    <<dt[1] - 1, dt[2],
      IF dt[3] > DaysInMonth(dt[1] - 1, dt[2])
      THEN DaysInMonth(dt[1] - 1, dt[2]) ELSE dt[3],
      dt[4]>>

\* dt + timedelta(days=1)
PlusDay(dt) ==
    IF dt[3] < DaysInMonth(dt[1], dt[2]) THEN <<dt[1], dt[2], dt[3] + 1, dt[4]>>
    ELSE IF dt[2] < 12 THEN <<dt[1], dt[2] + 1, 1, dt[4]>>
    ELSE <<dt[1] + 1, 1, 1, dt[4]>>

\* if start_datetime > datetime.now()
StartInFuture(start, now) == Later(start, now)

EndBeforeStartNever(start, end) == FALSE

\* if end_datetime < start_datetime
EndBeforeStart(start, end) == Later(start, end)

dt_inputs == <<dt_date, dt_start, dt_end, dt_now>>

\* start_datetime = duparse(f'{date} {start}'); end_datetime likewise
ParseInput ==
    /\ dt_pc = "parse"
    /\ start_datetime' = Datetime(dt_now[1], dt_date, dt_start)
    /\ end_datetime' = Datetime(dt_now[1], dt_date, dt_end)
    /\ dt_pc' = "year"
    /\ UNCHANGED dt_inputs
    /\ UNCHANGED <<corevars, jvars, gvars, fvars>>

AdjustYear ==
    /\ dt_pc = "year"
    /\ IF StartInFuture(start_datetime, dt_now)
       THEN /\ start_datetime' = MinusYear(start_datetime)
            /\ end_datetime' = MinusYear(end_datetime)
       ELSE UNCHANGED <<start_datetime, end_datetime>>
    /\ dt_pc' = "day"
    /\ UNCHANGED dt_inputs
    /\ UNCHANGED <<corevars, jvars, gvars, fvars>>

AdjustDay ==
    /\ dt_pc = "day"
    /\ IF EndBeforeStart(start_datetime, end_datetime)
       THEN end_datetime' = PlusDay(end_datetime)
       ELSE UNCHANGED end_datetime
    /\ dt_pc' = "done"
    /\ UNCHANGED <<start_datetime, dt_inputs>>
    /\ UNCHANGED <<corevars, jvars, gvars, fvars>>

\* a call on any date of the current year, with any two times of day, at
\* any moment of that year
InitDT ==
    /\ dt_pc = "parse"
    /\ \E year \in CurrentYears :
          /\ dt_date \in CalendarDates(year)
          /\ \E today \in CalendarDates(year), time \in TimesOfDay :
                dt_now = Datetime(year, today, time)
    /\ dt_start \in TimesOfDay
    /\ dt_end \in TimesOfDay
    /\ start_datetime = NoDatetime
    /\ end_datetime = NoDatetime

NextDT == ParseInput \/ AdjustYear \/ AdjustDay

InitSpecDT == IdleCore /\ InitDT /\ IdleJobs /\ IdleProgress /\ IdleNames

SpecDT == InitSpecDT /\ [][NextDT]_vars

(***************************************************************************)
(* Web backend: the endpoints of api/routes.py and their background tasks  *)
(*                                                                         *)
(* The handlers and the tasks are coroutines of one event loop: a handler  *)
(* without an await runs without interruption, and a task gives the loop   *)
(* away only where it awaits.                                              *)
(***************************************************************************)
Operations == {"extract", "compress", "timelapse"}

\* a text field of a request: empty or not
FieldValues == {"", "v"}

\* the methods class ExacqManService defines
ServiceMethods ==
    {"extract_video_with_progress", "_generate_output_filename",
     "_format_time_for_filename", "_cleanup_intermediate_files",
     "_move_to_exports", "validate_config_file", "get_available_configs"}

\* the method of exacqman_service a background task calls
ServiceMethod(operation) ==
    CASE operation = "extract" -> "extract_video"
      [] operation = "compress" -> "compress_video"
      [] operation = "timelapse" -> "create_timelapse"

\* what a handler raised: nothing, an HTTPException with its status code, or
\* a built-in error
NoRaise == [type |-> "none", status_code |-> 0]
HTTPException(status_code) == [type |-> "HTTPException", status_code |-> status_code]
FileNotFoundError == [type |-> "FileNotFoundError", status_code |-> 0]

\* every class raised here, HTTPException included, derives from Exception
IsException(e) == e.type \in {"HTTPException", "FileNotFoundError", "AttributeError"}

\* try: ... except Exception as e: raise HTTPException(status_code=500, ...)
\* around the body of a handler: the status code that is sent
Answer(raised) ==
    IF raised = NoRaise THEN 200
    ELSE IF IsException(raised) THEN 500
    ELSE raised.status_code

\* active_jobs[job_id] = {...}: the entry of a new job.  'feasible' records
\* whether the requested operation can succeed (NVR and files available) and
\* 'history' the values 'status' has had; neither is a key of the dict.
NewJob(operation, feasible) ==
    [status |-> "queued", operation |-> operation, progress |-> 0,
     message |-> "Job queued for processing", completed_at |-> "None",
     result |-> "None", feasible |-> feasible, history |-> <<"queued">>]

SetStatus(job, status) ==
    [job EXCEPT !.status = status, !.history = Append(@, status)]

\* the first three statements of a background task
OnStart(job) ==
    [SetStatus(job, "processing") EXCEPT !.message = "Starting", !.progress = 10]

\* the statements after the service call has returned
OnSuccess(job) ==
    [SetStatus(job, "completed") EXCEPT
        !.progress = 100, !.message = "completed successfully",
        !.completed_at = "set", !.result = "stored"]

OnFailureNoStamp(job) ==
    [SetStatus(job, "failed") EXCEPT !.message = "failed"]

\* the except block of a background task
OnFailure(job) ==
    [SetStatus(job, "failed") EXCEPT !.message = "failed", !.completed_at = "set"]

JobIds == 1..MaxJobs

\* the tail of the three job-creating handlers: the entry, the background
\* task and the answer
QueueJob(endpoint, operation, feasible) ==
    /\ Len(active_jobs) < MaxJobs
    /\ active_jobs' = Append(active_jobs, NewJob(operation, feasible))
    /\ scheduled' = scheduled \cup {Len(active_jobs) + 1}
    /\ response' = Response(endpoint, "none", 0, 200, "none")

Reject(endpoint, rejected, raised) ==
    /\ response' = Response(endpoint, rejected, raised.status_code, Answer(raised), "none")
    /\ UNCHANGED <<active_jobs, scheduled>>

\* POST /extract
ExtractVideo ==
    /\ j_running = 0
    /\ \E camera_alias \in FieldValues, start_time \in FieldValues,
          end_time \in FieldValues, feasible \in BOOLEAN :
          IF camera_alias = "" \/ start_time = "" \/ end_time = ""
          THEN Reject("extract", "missing_parameter", HTTPException(400))
          ELSE QueueJob("extract", "extract", feasible)
    /\ UNCHANGED j_running
    /\ UNCHANGED <<corevars, dvars, gvars, fvars>>

\* POST /compress
CompressVideo ==
    /\ j_running = 0
    /\ \E exists \in BOOLEAN, feasible \in BOOLEAN :
          IF ~exists
          THEN Reject("compress", "file_not_found", HTTPException(404))
          ELSE QueueJob("compress", "compress", feasible)
    /\ UNCHANGED j_running
    /\ UNCHANGED <<corevars, dvars, gvars, fvars>>

\* POST /timelapse
CreateTimelapse ==
    /\ j_running = 0
    /\ \E exists \in BOOLEAN, feasible \in BOOLEAN :
          IF ~exists
          THEN Reject("timelapse", "file_not_found", HTTPException(404))
          ELSE QueueJob("timelapse", "timelapse", feasible)
    /\ UNCHANGED j_running
    /\ UNCHANGED <<corevars, dvars, gvars, fvars>>

\* GET /status/{job_id}: the check is outside any try block
GetJobStatus ==
    /\ j_running = 0
    /\ \E job_id \in JobIds :
          response' =
              IF job_id \notin DOMAIN active_jobs
              THEN Response("status", "job_not_found", 404, 404, "none")
              ELSE Response("status", "none", 0, 200, active_jobs[job_id].status)
    /\ UNCHANGED <<active_jobs, scheduled, j_running>>
    /\ UNCHANGED <<corevars, dvars, gvars, fvars>>

\* GET /download/{filename}: FileService.get_file_path raises
\* FileNotFoundError for a file that is not there; the handler's own check
\* is reached only if the file is there then and gone a moment later
DownloadFile ==
    /\ j_running = 0
    /\ \E exists \in BOOLEAN, still_exists \in BOOLEAN :
          IF ~exists
          THEN Reject("download", "file_not_found", FileNotFoundError)
          ELSE IF ~still_exists
          THEN Reject("download", "file_not_found", HTTPException(404))
          ELSE /\ response' = Response("download", "none", 0, 200, "none")
               /\ UNCHANGED <<active_jobs, scheduled>>
    /\ UNCHANGED j_running
    /\ UNCHANGED <<corevars, dvars, gvars, fvars>>

\* process_*_job up to the service call
BeginJob ==
    /\ j_running = 0
    /\ \E job_id \in scheduled :
          /\ active_jobs' = [active_jobs EXCEPT ![job_id] = OnStart(@)]
          /\ scheduled' = scheduled \ {job_id}
          /\ j_running' = job_id
    /\ UNCHANGED response
    /\ UNCHANGED <<corevars, dvars, gvars, fvars>>

\* result = await exacqman_service.<method>(request) and what follows it.
\* The attribute lookup raises AttributeError for a method the class does
\* not define, before anything is awaited; a method that is there returns
\* or raises as the operation succeeds or fails.
CallService ==
    /\ j_running # 0
    /\ LET job == active_jobs[j_running]
       IN active_jobs' = [active_jobs EXCEPT ![j_running] =
              IF ServiceMethod(job.operation) \notin ServiceMethods
              THEN OnFailure(job)
              ELSE IF job.feasible THEN OnSuccess(job) ELSE OnFailure(job)]
    /\ j_running' = 0
    /\ UNCHANGED <<scheduled, response>>
    /\ UNCHANGED <<corevars, dvars, gvars, fvars>>

NextWeb ==
    \/ ExtractVideo
    \/ CompressVideo
    \/ CreateTimelapse
    \/ GetJobStatus
    \/ DownloadFile
    \/ BeginJob
    \/ CallService

InitSpecWeb == IdleCore /\ IdleDT /\ IdleJobs /\ IdleProgress /\ IdleNames

\* the tasks the event loop has accepted are run
SpecWeb == InitSpecWeb /\ [][NextWeb]_vars /\ WF_vars(BeginJob \/ CallService)

(***************************************************************************)
(* Web backend: ExacqManService.extract_video_with_progress                *)
(*                                                                         *)
(* The loop alternates between the incremental update, due when two        *)
(* seconds have passed since the last update or milestone, and a read of   *)
(* one line of the child's output that gives up after 0.1 s.  Time is      *)
(* counted in seconds since last_incremental_time, up to the two seconds   *)
(* the code compares it with.                                              *)
(***************************************************************************)
IncrementalPeriod == 2

IncrementalStep == 2

IncrementalCeiling == 90

\* the lines of the command-line program that the loop looks for, in the
\* order the program prints them
MilestoneLines ==
    <<"Export ready", "Video saved successfully", "Processing Video",
      "Beginning Video compression", "Video successfully compressed">>

\* what the child writes: the milestones up to the point where it stops,
\* with or without a line of no interest before them
CliOutputs ==
    {SubSeq(MilestoneLines, 1, k) : k \in 0..Len(MilestoneLines)}
        \cup {<<"other">> \o SubSeq(MilestoneLines, 1, k) : k \in 0..Len(MilestoneLines)}

\* the child ends with status 0 after it has compressed the video
ExitStatus(output) ==
    IF Len(output) > 0 /\ output[Len(output)] = "Video successfully compressed"
    THEN 0 ELSE 1

\* the classes of the argument: the request model of api/models.py, which
\* has no start_datetime and no timelapse_multiplier, and an object that has
\* the attributes the method reads
RequestClasses == {"ExtractRequest", "with start_datetime"}

HasDatetimes(request) == request = "with start_datetime"

\* the percentage a line of output sets (-1: none)
MilestonePercent(line) ==
    CASE line = "Export ready" -> 10
      [] line = "Video saved successfully" -> 20
      [] line = "Processing Video" -> 30
      [] line = "Beginning Video compression" -> 90
      [] line = "Video successfully compressed" -> 100
      [] OTHER -> -1

\* next_milestone = 20 if progress_percent < 20 else (30 if ... < 30 else 90)
NextMilestone(percent) ==
    IF percent < 20 THEN 20 ELSE IF percent < 30 THEN 30 ELSE 90

\* increment = min(2, next_milestone - progress_percent)
Increment(percent) == Min(IncrementalStep, NextMilestone(percent) - percent)

\* if current_time - last_incremental_time >= 2.0 and progress_percent < 90
IncrementalDue(elapsed, percent) ==
    elapsed >= IncrementalPeriod /\ percent < IncrementalCeiling

\* progress_callback(percent, message)
Callback(percent) ==
    /\ reported' = percent
    /\ regressed' = (regressed \/ (reported # -1 /\ percent < reported))

\* time goes on while the loop waits for a line
Elapse(elapsed) == {elapsed, Min(elapsed + 1, IncrementalPeriod)}

g_inputs == <<g_request, returncode>>

\* lines 40-84: the command line, progress_callback(0, ...), the child
StartExtract ==
    /\ g_pc = "start"
    /\ IF ~HasDatetimes(g_request)
       THEN \* AttributeError at request.start_datetime; except block
            /\ Callback(0)
            /\ g_exc' = "AttributeError"
            /\ g_pc' = "raised"
            /\ UNCHANGED <<cli, progress_percent, since_incremental>>
       ELSE /\ Callback(0)
            /\ progress_percent' = 0
            /\ since_incremental' = 0
            /\ g_pc' = "check"
            /\ UNCHANGED <<cli, g_exc>>
    /\ UNCHANGED g_inputs
    /\ UNCHANGED <<corevars, dvars, jvars, fvars>>

\* lines 87-106
IncrementalUpdate ==
    /\ g_pc = "check"
    /\ IF IncrementalDue(since_incremental, progress_percent)
          /\ Increment(progress_percent) > 0
       THEN /\ progress_percent' = progress_percent + Increment(progress_percent)
            /\ since_incremental' = 0
            /\ Callback(progress_percent')
       ELSE UNCHANGED <<progress_percent, since_incremental, reported, regressed>>
    /\ g_pc' = "read"
    /\ UNCHANGED <<cli, g_exc, g_inputs>>
    /\ UNCHANGED <<corevars, dvars, jvars, fvars>>

\* lines 108-144: a line, the end of the output, or the timeout
ReadLine ==
    /\ g_pc = "read"
    /\ \/ \* asyncio.TimeoutError: continue
          /\ since_incremental' \in Elapse(since_incremental)
          /\ g_pc' = "check"
          /\ UNCHANGED <<cli, progress_percent, reported, regressed>>
       \/ \* if not line: break
          /\ cli = <<>>
          /\ g_pc' = "wait"
          /\ UNCHANGED <<cli, progress_percent, since_incremental, reported, regressed>>
       \/ /\ cli # <<>>
          /\ cli' = Tail(cli)
          /\ LET percent == MilestonePercent(Head(cli))
             IN IF percent = -1
                THEN /\ since_incremental' \in Elapse(since_incremental)
                     /\ g_pc' = "check"
                     /\ UNCHANGED <<progress_percent, reported, regressed>>
                ELSE IF percent = 100
                THEN /\ Callback(100)
                     /\ g_pc' = "wait"
                     /\ UNCHANGED <<progress_percent, since_incremental>>
                ELSE /\ progress_percent' = percent
                     /\ since_incremental' = 0
                     /\ Callback(percent)
                     /\ g_pc' = "check"
    /\ UNCHANGED <<g_exc, g_inputs>>
    /\ UNCHANGED <<corevars, dvars, jvars, fvars>>

\* lines 146-171: the exit status, the move to the exports directory
WaitProcess ==
    /\ g_pc = "wait"
    /\ \E found \in BOOLEAN :
          IF returncode # 0
          THEN \* progress_callback(0, ...) at line 152 and again at line 170
               /\ Callback(0)
               /\ g_exc' = "CalledProcessError"
               /\ g_pc' = "raised"
          ELSE IF ~found
          THEN /\ Callback(0)
               /\ g_exc' = "FileNotFoundError"
               /\ g_pc' = "raised"
          ELSE /\ g_pc' = "returned"
               /\ UNCHANGED <<reported, regressed, g_exc>>
    /\ UNCHANGED <<cli, progress_percent, since_incremental, g_inputs>>
    /\ UNCHANGED <<corevars, dvars, jvars, fvars>>

InitProgress ==
    /\ g_pc = "start"
    /\ g_request \in RequestClasses
    /\ cli \in CliOutputs
    /\ returncode = ExitStatus(cli)
    /\ progress_percent = 0
    /\ since_incremental = 0
    /\ reported = -1
    /\ regressed = FALSE
    /\ g_exc = "none"

NextProgress == StartExtract \/ IncrementalUpdate \/ ReadLine \/ WaitProcess

InitSpecProgress == IdleCore /\ IdleDT /\ IdleJobs /\ InitProgress /\ IdleNames

SpecProgress == InitSpecProgress /\ [][NextProgress]_vars

(***************************************************************************)
(* Web backend: the names of exported files                                *)
(*                                                                         *)
(* A string is a sequence of characters.  The name is built by             *)
(* ExacqManService._generate_output_filename, gets its extension when the  *)
(* file is moved to the exports directory, and is read back by             *)
(* FileService._parse_filename_metadata when the files are listed.         *)
(***************************************************************************)
DigitChars == <<"0", "1", "2", "3", "4", "5", "6", "7", "8", "9">>

\* str(n) for n >= 0
RECURSIVE Str(_)
Str(n) == IF n < 10 THEN <<DigitChars[n + 1]>>
          ELSE Str(n \div 10) \o <<DigitChars[(n % 10) + 1]>>

\* f"{n:02d}"
Pad2(n) == IF n < 10 THEN <<"0">> \o Str(n) ELSE Str(n)

IsDigit(c) == \E i \in 1..Len(DigitChars) : DigitChars[i] = c

DigitValue(c) == (CHOOSE i \in 1..Len(DigitChars) : DigitChars[i] = c) - 1

\* int(text) succeeds on a non-empty string of digits
IsInt(text) == Len(text) > 0 /\ \A i \in 1..Len(text) : IsDigit(text[i])

RECURSIVE IntOf(_)
IntOf(text) ==
    IF Len(text) = 0 THEN 0
    ELSE IntOf(SubSeq(text, 1, Len(text) - 1)) * 10 + DigitValue(text[Len(text)])

\* text.split(sep): the pieces between the separators, empty ones included
RECURSIVE Split(_, _)
Split(text, sep) ==
    IF \A i \in 1..Len(text) : text[i] # sep THEN <<text>>
    ELSE LET i == CHOOSE k \in 1..Len(text) :
                     text[k] = sep /\ \A m \in 1..(k - 1) : text[m] # sep
         IN <<SubSeq(text, 1, i - 1)>> \o Split(SubSeq(text, i + 1, Len(text)), sep)

\* sep.join(parts)
RECURSIVE Join(_, _)
Join(parts, sep) ==
    IF Len(parts) = 0 THEN <<>>
    ELSE IF Len(parts) = 1 THEN parts[1]
    ELSE parts[1] \o <<sep>> \o Join(Tail(parts), sep)

\* Path(filename).stem for a name without directories: the name up to its
\* last dot, the whole name if it has none or only a leading one
Stem(name) ==
    LET dots == {i \in 2..Len(name) : name[i] = "."}
    IN IF dots = {} THEN name
       ELSE SubSeq(name, 1, (CHOOSE i \in dots : \A k \in dots : k <= i) - 1)

Extension == <<".", "m", "p", "4">>

\* strftime("%Y-%m-%d")
DateStr(dt) == Str(dt[1]) \o <<"-">> \o Pad2(dt[2]) \o <<"-">> \o Pad2(dt[3])

\* _format_time_for_filename
FormatTimeForFilename(dt) ==
    LET hour == dt[4]
        minute == dt[5]
        hour_12 == IF hour = 0 THEN 12
                   ELSE IF hour < 12 THEN hour
                   ELSE IF hour = 12 THEN 12
                   ELSE hour - 12
        period == IF hour < 12 THEN <<"a", "m">> ELSE <<"p", "m">>
    IN Pad2(hour_12) \o Pad2(minute) \o period

\* _generate_output_filename
GenerateOutputFilename(dt, camera_alias, timelapse_multiplier) ==
    DateStr(dt) \o <<"_">> \o FormatTimeForFilename(dt) \o <<"_">>
        \o camera_alias \o <<"_">> \o Str(timelapse_multiplier) \o <<"x">>

\* None as a camera alias and as a multiplier
NoAlias == <<"None">>
NoMultiplier == -1

\* the multiplier a part like "10x" stands for
MultiplierOf(multiplier_part) ==
    LET n == Len(multiplier_part)
    IN IF n > 0 /\ multiplier_part[n] = "x" /\ IsInt(SubSeq(multiplier_part, 1, n - 1))
       THEN IntOf(SubSeq(multiplier_part, 1, n - 1))
       ELSE NoMultiplier

\* _parse_filename_metadata: <<camera_alias, timelapse_multiplier>>
ParseFilenameMetadata(filename) ==
    LET parts == Split(Stem(filename), "_")
        n == Len(parts)
        parsed_multiplier == MultiplierOf(parts[n])
    IN IF n >= 4
       THEN <<IF parsed_multiplier # NoMultiplier THEN parts[n - 1] ELSE NoAlias, parsed_multiplier>>
       ELSE IF n >= 3
       THEN <<IF parsed_multiplier # NoMultiplier
              THEN Join(SubSeq(parts, 2, n - 1), "_")
              ELSE Join(SubSeq(parts, 2, n), "_"),
              parsed_multiplier>>
       ELSE <<NoAlias, NoMultiplier>>

AliasChars == {"a", "x", "_"}

\* the camera aliases: the strings of one to MaxAlias characters
Aliases == UNION {[1..n -> AliasChars] : n \in 1..MaxAlias}

\* the multipliers: the small ones and the default, which has two digits
Multipliers == (1..MaxMultiplier) \cup {DefaultMultiplier}

\* midnight, a morning, noon and an evening
StartDatetimes ==
    {<<2024, 1, 5, 0, 0>>, <<2024, 11, 30, 9, 15>>,
     <<2025, 2, 28, 12, 5>>, <<2025, 12, 31, 23, 45>>}

f_inputs == <<f_alias, f_multiplier, f_start>>

\* extract_video_with_progress: output_filename = _generate_output_filename
GenerateName ==
    /\ f_pc = "request"
    /\ f_name' = GenerateOutputFilename(f_start, f_alias, f_multiplier)
    /\ f_pc' = "generated"
    /\ UNCHANGED <<f_parsed, f_inputs>>
    /\ UNCHANGED <<corevars, dvars, jvars, gvars>>

\* _move_to_exports: clean_filename = f"{base_name}.mp4"; no generated name
\* contains ".mp4", so base_name is the name
MoveToExports ==
    /\ f_pc = "generated"
    /\ f_name' = f_name \o Extension
    /\ f_pc' = "exported"
    /\ UNCHANGED <<f_parsed, f_inputs>>
    /\ UNCHANGED <<corevars, dvars, jvars, gvars>>

\* _create_file_info: camera_alias, timelapse_multiplier =
\*     self._parse_filename_metadata(file_path.name)
ParseName ==
    /\ f_pc = "exported"
    /\ f_parsed' = ParseFilenameMetadata(f_name)
    /\ f_pc' = "parsed"
    /\ UNCHANGED <<f_name, f_inputs>>
    /\ UNCHANGED <<corevars, dvars, jvars, gvars>>

InitNames ==
    /\ f_pc = "request"
    /\ f_alias \in Aliases
    /\ f_multiplier \in Multipliers
    /\ f_start \in StartDatetimes
    /\ f_name = <<>>
    /\ f_parsed = <<>>

NextNames == GenerateName \/ MoveToExports \/ ParseName

InitSpecNames == IdleCore /\ IdleDT /\ IdleJobs /\ IdleProgress /\ InitNames

SpecNames == InitSpecNames /\ [][NextNames]_vars

(***************************************************************************)
(* Claims about get_video                                                  *)
(***************************************************************************)
\* the export id was obtained: export_request returned it
ObtainedId == ~Falsy(export_id)

\* get_video was interrupted during the wait between two polls
Interrupted == pending.type = "KeyboardInterrupt"

\* get_video failed before the cleanup ran
FailedBeforeCleanup == pending # NoExc

\* C1: in every finished run of get_video the delete call is issued exactly
\* once, against the export id, if export_request returned an export id, and
\* is not issued at all if no export id was obtained; it is never issued twice.
C1_DeleteExactlyOnce ==
    /\ nDelete <= 1
    /\ nDelete = 1 => ObtainedId /\ deletedId = export_id
    /\ pc = "done" => nDelete = (IF ObtainedId THEN 1 ELSE 0)

\* a run that failed at a poll or at the download and still issued the delete
C1_Witness ==
    /\ pc = "done"
    /\ FailedBeforeCleanup
    /\ pending.phase \in {"status", "download"}
    /\ nDelete = 1

\* the last n remembered polls all reported the value v
LastPollsAre(n, v) ==
    /\ Len(polls) >= n
    /\ \A i \in (Len(polls) - n + 1)..Len(polls) : polls[i] = v

\* C2: a poll of the loop that reports a higher progress than the previous one
\* resets the stall counter to zero; the counter is incremented, by one, only
\* by a poll of the loop that reports the same progress as the previous one;
\* and the timeout is raised only after num_of_retries + 1 consecutive polls
\* repeated the value of the poll before them, that value not being 100.
C2_StallCounter ==
    /\ [][ /\ (pc = "loop" /\ pc' = "loop" /\ progress' > progress) => retries' = 0
           /\ retries' > retries =>
                /\ pc = "loop" /\ pc' = "loop"
                /\ progress' = progress
                /\ retries' = retries + 1 ]_vars
    /\ [](timedOut => /\ progress # ReadyProgress
                      /\ LastPollsAre(num_of_retries + 2, progress))

\* a run that timed out although the progress had moved earlier
C2_Witness ==
    /\ timedOut
    /\ \E i \in 1..Len(polls) : polls[i] < progress

\* the polls so far, all remembered, are n polls that all reported 10, and
\* nobody interrupted the run
StalledPolls(n) ==
    /\ ~Interrupted
    /\ num_of_retries = DefaultRetries
    /\ nStatus = n
    /\ polls = [i \in 1..n |-> 10]

\* C3 as stated: with a stall budget of 5 and a server that reports 10 in each
\* of the first six polls, no seventh poll is issued; the run ends timed out
\* and with the delete call issued.
C3_TimedOutAfterSixthPoll ==
    (/\ ~Interrupted
     /\ num_of_retries = DefaultRetries
     /\ Len(polls) >= 6
     /\ nStatus = Len(polls)
     /\ \A i \in 1..6 : polls[i] = 10)
    => /\ nStatus = 6
       /\ pc = "done" => timedOut /\ nDelete = 1

\* C3 amended: with a stall budget of 5, after six polls that all reported 10
\* the run is still polling and its next step is a seventh poll; after seven
\* such polls its next step is the timeout (no eighth poll, no download), and
\* the run ends timed out with the delete call issued.
C3_TimedOutAfterSeventhPoll ==
    /\ StalledPolls(6) =>
        /\ pc = "loop"
        /\ ENABLED LoopPoll
        /\ ~ENABLED StallTimeout
        /\ ~ENABLED ExportDownload
    /\ StalledPolls(7) =>
        /\ pc \in {"loop", "finally", "done"}
        /\ pc = "loop" =>
            /\ ENABLED StallTimeout
            /\ ~ENABLED LoopPoll
            /\ ~ENABLED ExportDownload
        /\ pc \in {"finally", "done"} => timedOut /\ nDownload = 0
        /\ pc = "done" => nDelete = 1 /\ deletedId = export_id

\* seven polls of 10, the timeout, and the delete issued
C3_Witness ==
    /\ StalledPolls(7)
    /\ pc = "done"
    /\ timedOut
    /\ nDelete = 1

\* C4: the polling loop terminates for every sequence of progress values: a
\* run that is polling eventually leaves the loop (to the download, to the
\* timeout or with an error).
C4_PollingTerminates == (pc \in {"first_poll", "loop"}) ~> (pc \notin {"first_poll", "loop"})

\* C5: when get_video had already failed and the cleanup delete call fails
\* too, the error that reaches the caller is the original failure.
C5_OriginalErrorSurvives ==
    (pc = "done" /\ FailedBeforeCleanup /\ deleteFailed) => exc = pending

\* C6: the export request is sent only after the camera list was fetched and
\* the camera id was found in it; when the camera id is not in the list the
\* run fails with an ExacqvisionError having fetched the list once and issued
\* no export request, no status poll, no download and no delete.
C6_CameraChecked ==
    /\ nExportReq > 0 =>
        /\ nListCameras = 1
        /\ cameraCheck = "listed"
        /\ camera_id \in cameraList
    /\ (cameraCheck = "listed" /\ camera_id \notin cameraList) =>
        /\ pc \in {"finally", "done"}
        /\ exc = Exc("ExacqvisionError", "list_cameras")
        /\ nListCameras = 1
        /\ nExportReq = 0
        /\ nStatus = 0
        /\ nDownload = 0
        /\ nDelete = 0

\* a finished run whose camera id was not in the NVR's (non-empty) list
C6_Witness ==
    /\ pc = "done"
    /\ cameraCheck = "listed"
    /\ cameraList # {}
    /\ camera_id \notin cameraList

\* C7: for an export id the calls are one export request, then one or more
\* status polls, then at most one download, then exactly one delete: a status
\* poll is issued only before any download and delete, a download only after
\* a poll and before the delete, the delete last, and a finished run that
\* obtained an export id issued exactly one delete.
C7_CallOrder ==
    /\ nExportReq <= 1 /\ nDownload <= 1 /\ nDelete <= 1
    /\ lastCall = "status" => nExportReq = 1 /\ nDownload = 0 /\ nDelete = 0
    /\ lastCall = "download" => nStatus >= 1 /\ nDownload = 1 /\ nDelete = 0
    /\ nDownload = 1 => nStatus >= 1 /\ lastCall \in {"download", "delete"}
    /\ nDelete = 1 => lastCall = "delete" /\ nExportReq = 1 /\ nStatus >= 1
    /\ (ObtainedId /\ pc \notin {"first_poll"}) => nStatus >= 1
    /\ (ObtainedId /\ pc = "done") => nExportReq = 1 /\ nDelete = 1

\* a finished run with several polls, a download and the delete
C7_Witness ==
    /\ pc = "done"
    /\ nStatus >= 2
    /\ nDownload = 1
    /\ nDelete = 1

(***************************************************************************)
(* Claims about get_timestamps                                             *)
(***************************************************************************)
\* get_timestamps returned a list
Resolved == ts_pc = "done" /\ ts_exc = NoExc

NoDuplicates(r) == \A i, j \in 1..Len(r) : i # j => r[i] # r[j]

NonDecreasing(r) == \A i, j \in 1..Len(r) : i < j => r[i] <= r[j]

WithinWindow(r) == \A i \in 1..Len(r) : ts_start <= r[i] /\ r[i] <= ts_stop

\* the clips of the response are in chronological order of their start times
Chronological == \A i, j \in 1..Len(clips) : i < j => clips[i][1] <= clips[j][1]

InClip(t, i) ==
    /\ ConvertGMTToLocal(clips[i][1], tz_offset) <= t
    /\ t <= ConvertGMTToLocal(clips[i][2], tz_offset)

\* index of the first clip that holds t (0 if none does)
FirstClip(t) ==
    IF \E i \in 1..Len(clips) : InClip(t, i)
    THEN CHOOSE i \in 1..Len(clips) :
            InClip(t, i) /\ \A k \in 1..(i - 1) : ~InClip(t, k)
    ELSE 0

CeilDiv(n, m) == (n + m - 1) \div m

\* C10: for every multiplier m >= 1 and every source of N frames, a run of
\* process_video that returns has written exactly ceil(N / m) frames; while
\* the loop runs, the frames written so far are ceil(count / m), and a source
\* without a frame gets none written.
C10_OutputFrameCount ==
    /\ pv_pc = "done" => Len(written) = CeilDiv(nFrames, multiplier)
    /\ pv_pc = "loop" => Len(written) = CeilDiv(count, multiplier)
    /\ (pv_pc = "raised" /\ multiplier >= 1 /\ nFrames = 0) => written = <<>>

\* seven frames at multiplier 3: three frames written
C10_Witness ==
    /\ pv_pc = "done"
    /\ multiplier = 3
    /\ nFrames = 7
    /\ Len(written) = 3

\* the multiples of m below n, in increasing order
MultiplesBelow(n, m) == [k \in 1..CeilDiv(n, m) |-> (k - 1) * m]

\* C11: whatever the timestamps and the crop settings, the frames
\* process_video has written are exactly the frames read so far whose
\* zero-based index is a multiple of the multiplier, in increasing order; a
\* run that returns has read every frame of the source.
C11_WrittenAreMultiples ==
    /\ (pv_pc \in {"loop", "done"} \/ (pv_pc = "raised" /\ pv_exc.phase = "loop"))
          => written = MultiplesBelow(count, multiplier)
    /\ pv_pc = "done" => count = nFrames

\* five frames at multiplier 2, cropped and stamped: frames 0, 2 and 4
C11_Witness ==
    /\ pv_pc = "done"
    /\ crop
    /\ number_of_timestamps = 2
    /\ multiplier = 2
    /\ nFrames = 5
    /\ written = <<0, 2, 4>>

\* the crop set-up of a cropping run has been executed
CropApplied == crop /\ (pv_pc = "setup" \/ writerSize # <<>>)

\* the region lies entirely within the source frame
WithinFrame ==
    /\ crop_dimensions # <<>>
    /\ crop_dimensions[1][1] + crop_dimensions[2][1] <= width
    /\ crop_dimensions[1][2] + crop_dimensions[2][2] <= height

\* C12: when the crop region (x, y, w, h) lies entirely within the source
\* frame, the writer is created with frame size (w, h) and every frame
\* written has exactly w columns and h rows.
C12_CropWithinFrame ==
    (CropApplied /\ WithinFrame) =>
        /\ writerSize # <<>> => writerSize = crop_dimensions[2]
        /\ \A s \in frameSizes : s = crop_dimensions[2]

\* a 2 x 1 region at (1, 0) of a 3 x 2 frame
C12_Witness ==
    /\ pv_pc = "done"
    /\ crop
    /\ width = 3
    /\ height = 2
    /\ crop_dimensions = Region(1, 0, 2, 1)
    /\ writerSize = <<2, 1>>
    /\ frameSizes = {<<2, 1>>}

\* C13: when the crop region exceeds the source frame, process_video warns
\* about the adjustment and uses an effective region (x, y, w', h') with
\* x + w' <= frame width and y + h' <= frame height: the writer is created
\* with (w', h') and no written frame reaches beyond it or beyond the source.
C13_CropClamped ==
    (CropApplied /\ ~WithinFrame) =>
        /\ warned
        /\ <<x, y>> = crop_dimensions[1]
        /\ x + crop_width <= width
        /\ y + crop_height <= height
        /\ writerSize # <<>> => writerSize = <<crop_width, crop_height>>
        /\ \A s \in frameSizes :
              /\ s[1] <= width /\ s[2] <= height
              /\ (crop_width >= 0 /\ crop_height >= 0) => s = <<crop_width, crop_height>>

\* a 3 x 3 region at (1, 1) of a 3 x 2 frame is cut down to 2 x 1
C13_Witness ==
    /\ pv_pc = "done"
    /\ crop
    /\ width = 3
    /\ height = 2
    /\ crop_dimensions = Region(1, 1, 3, 3)
    /\ warned
    /\ writerSize = <<2, 1>>
    /\ frameSizes = {<<2, 1>>}

\* C14: with cropping disabled compress_video encodes low at 250K and
\* 1280 x 720, medium at 500K and 1920 x 1080, high at 1M and 1920 x 1080;
\* any other quality raises before the encoder is started and no output file
\* is written.
C14_QualityTable ==
    /\ (~crop /\ cv_pc \in {"encode", "done"}) =>
          \/ compression_level = "low" /\ bitrate = "250K" /\ resolution = <<1280, 720>>
          \/ compression_level = "medium" /\ bitrate = "500K" /\ resolution = <<1920, 1080>>
          \/ compression_level = "high" /\ bitrate = "1M" /\ resolution = <<1920, 1080>>
    /\ (~crop /\ compression_level \notin {"low", "medium", "high"}) =>
          /\ cv_pc \in {"idle", "start", "raised"}
          /\ cv_pc = "raised" => cv_exc = Exc("ValueError", "quality")
          /\ ~encoded
          /\ resolution = <<>>

\* an unknown quality without cropping: ValueError, nothing encoded
C14_Witness ==
    /\ ~crop
    /\ compression_level = "ultra"
    /\ cv_pc = "raised"
    /\ cv_exc.type = "ValueError"
    /\ ~encoded

\* C15: in a cropping run the target resolution compress_video passes to the
\* encoder equals the width and height of the frames process_video wrote,
\* clamped regions included.
C15_ResolutionMatchesFrames ==
    (crop /\ cv_pc \in {"encode", "done"}) =>
        \A s \in frameSizes : resolution = s

\* C16: when an error occurs inside the per-frame loop, after writer and
\* reader were opened, both are released before process_video exits.
C16_ReleasedOnLoopError ==
    (pv_pc = "raised" /\ pv_exc.phase = "loop") => (~writerOpen /\ ~readerOpen)

BadSettings ==
    \/ ResolveMultiplier(arg_multiplier, cfg_multiplier) <= 0
    \/ ResolveQuality(arg_quality, cfg_quality) \notin {"low", "medium", "high"}

\* C18: in an extract run bad settings, from the configuration file or from
\* a command-line override, are rejected before any NVR request is issued
\* and before any frame is processed.
C18_BadSettingsRejectedFirst ==
    BadSettings =>
        /\ nvrCalls = <<>>
        /\ nOpen = 0
        /\ written = <<>>

(***************************************************************************)
(* Claims about the exceptions of get_video                                *)
(***************************************************************************)
\* C19: when the export stalls past the retry budget, the exception get_video
\* raises to its caller is an ExacqvisionTimeoutError.
C19_TimeoutReachesCaller ==
    (timedOut /\ pc \in {"finally", "done"}) => exc.type = "ExacqvisionTimeoutError"

\* C20: whenever the export or the download fails, the exception that leaves
\* get_video is an ExacqvisionError (or a subclass), the class main's handler
\* catches.
C20_FailuresAreExacqvisionErrors ==
    (pc \in {"finally", "done"} /\ exc # NoExc /\ exc.type # "KeyboardInterrupt")
        => IsExacqvisionError(exc)

(***************************************************************************)
(* Claims about cancellation and the polling loop                          *)
(***************************************************************************)
\* C21: when get_video is interrupted during the wait between two status
\* polls, it issues no further poll and no download, and the delete call for
\* the export id is still issued, exactly once.
C21_CancelAtPollBoundary ==
    [][Interrupted' =>
          /\ nStatus' = nStatus
          /\ lastCall' \in {"status", "delete"}
          /\ nDownload' = 0
          /\ nDelete' = (IF pc' = "done" THEN 1 ELSE 0)
          /\ pc' = "done" => deletedId' = export_id']_vars

\* an interrupt after the third poll: three polls, no download, one delete
C21_Witness ==
    /\ pc = "done"
    /\ Interrupted
    /\ nStatus = 3
    /\ nDownload = 0
    /\ nDelete = 1
    /\ deletedId = export_id

(***************************************************************************)
(* Claims about sessions, settings and the order of the stages             *)
(***************************************************************************)
\* C22: in an extract run the search call that resolves the overlay
\* timestamps is issued with the session token that was used for the export
\* of the footage.
C22_SearchUsesExportSession ==
    \A i, j \in 1..Len(nvrCalls) :
        (nvrCalls[i].call = "export" /\ nvrCalls[j].call = "search")
            => nvrCalls[j].token = nvrCalls[i].token

\* C23: once the settings are assembled no stage modifies a field of them:
\* no step of process_video or compress_video changes the multiplier, the
\* quality, the crop flag or the crop region.
C23_SettingsUnchangedByStages ==
    [][<<multiplier, compression_level, crop, crop_dimensions>>'
          = <<multiplier, compression_level, crop, crop_dimensions>>]_vars

\* Settings.from_args_and_config has returned
Assembled ==
    /\ m_pc \notin {"parse", "config", "settings"}
    /\ m_pc = "exit" => nvrCalls # <<>>

\* C24: a setting resolved with set_value is the command-line value when one
\* was given, otherwise the configuration file's value when it is not empty,
\* otherwise the class default; a lower-priority source is never used when a
\* higher-priority one supplies a value.
C24_Precedence ==
    Assembled =>
        /\ arg_multiplier.kind = "int" => multiplier = arg_multiplier.value
        /\ (arg_multiplier.kind = "missing" /\ cfg_multiplier.kind = "int")
              => multiplier = cfg_multiplier.value
        /\ (arg_multiplier.kind = "missing" /\ cfg_multiplier.kind = "missing")
              => multiplier = 10
        /\ arg_quality # "" => compression_level = arg_quality
        /\ (arg_quality = "" /\ cfg_quality # "") => compression_level = cfg_quality
        /\ (arg_quality = "" /\ cfg_quality = "") => compression_level = "medium"

\* the command line names a quality, the configuration file another one and
\* the multiplier: the quality of the command line and the multiplier of the
\* file are used
C24_Witness ==
    /\ Assembled
    /\ arg_quality = "low"
    /\ cfg_quality = "high"
    /\ compression_level = "low"
    /\ arg_multiplier = Missing
    /\ cfg_multiplier = IntText(2)
    /\ multiplier = 2

\* C25: process_video starts only after get_video returned a file and
\* get_timestamps returned a sequence (and the session was logged out),
\* compress_video starts only after process_video returned, and when
\* get_video or get_timestamps raises an ExacqvisionError the run exits with
\* status 1 and neither process_video nor compress_video runs.
C25_StageOrder ==
    /\ pv_pc # "idle" =>
          /\ \E i, j \in 1..Len(nvrCalls) :
                i < j /\ nvrCalls[i].call = "export" /\ nvrCalls[j].call = "search"
          /\ nvrCalls[Len(nvrCalls)].call = "logout"
          /\ m_exc.phase \notin {"login", "get_video", "get_timestamps"}
    /\ cv_pc # "idle" => pv_pc = "done"
    /\ m_exc.type = "ExacqvisionError" =>
          /\ m_pc \in {"finally", "exit"}
          /\ m_pc = "exit" => exit_status = 1
          /\ pv_pc = "idle"
          /\ cv_pc = "idle"

\* a run through all four stages that ends with the compressed file
C25_Witness ==
    /\ m_pc = "exit"
    /\ exit_status = 0
    /\ pv_pc = "done"
    /\ cv_pc = "done"
    /\ encoded
    /\ Len(nvrCalls) = 5

(***************************************************************************)
(* Claims about the overlay index, the download and the poll budget        *)
(***************************************************************************)
\* a timestamp has been looked up for the frame at position count
Stamped ==
    /\ number_of_timestamps > 0
    /\ count >= 1
    /\ pv_pc \in {"loop", "done", "raised"}

C27_DownloadOnlyWhenReady ==
    /\ nDownload > 0 =>
          /\ polls # <<>>
          /\ polls[Len(polls)] = 100
          /\ ~timedOut
    /\ timedOut => (nDownload = 0 /\ result = "")

\* a download after the progress went 10, 50, 100
C27_Witness ==
    /\ pc = "done"
    /\ polls = <<10, 50, 100>>
    /\ nDownload = 1
    /\ result = "file"

\* number of equal values at the end of h
RECURSIVE TrailingRun(_)
TrailingRun(h) ==
    IF Len(h) <= 1 THEN Len(h)
    ELSE IF h[Len(h)] # h[Len(h) - 1] THEN 1
    ELSE 1 + TrailingRun(SubSeq(h, 1, Len(h) - 1))

\* C28: against an NVR whose progress never decreases get_video always
\* terminates, after at most (num_of_retries + 1) polls per distinct progress
\* value plus one: no value is reported in more than num_of_retries + 2
\* consecutive polls, and while every poll is remembered their number is at
\* most (num_of_retries + 1) * (distinct values) + 1.
C28_MonotoneTerminates ==
    /\ [](/\ TrailingRun(polls) <= num_of_retries + 2
          /\ nStatus = Len(polls) =>
                nStatus <= (num_of_retries + 1) * Cardinality(Range(polls)) + 1)
    /\ <>(pc = "done")

\* budget 1 and the polls 10, 10, 50, 50, 50: the bound of 2 * 2 + 1 polls
\* is reached and the run ends timed out
C28_Witness ==
    /\ monotoneServer
    /\ pc = "done"
    /\ num_of_retries = 1
    /\ polls = <<10, 10, 50, 50, 50>>
    /\ nStatus = 5
    /\ timedOut

\* C29: for every configured region with non-negative origin and positive
\* width and height, and every frame size, the effective region has width
\* >= 1 and height >= 1: the writer is never created with a zero or negative
\* dimension.
C29_EffectiveRegionPositive ==
    (/\ crop
     /\ writerSize # <<>>
     /\ crop_dimensions[1][1] >= 0 /\ crop_dimensions[1][2] >= 0
     /\ crop_dimensions[2][1] >= 1 /\ crop_dimensions[2][2] >= 1)
    => (writerSize[1] >= 1 /\ writerSize[2] >= 1)

\* C30: every session token obtained by a successful login has been passed
\* to logout when the process ends, on the success path and on every error
\* path.
C30_EverySessionLoggedOut == m_pc = "exit" => sessions = {}

(***************************************************************************)
(* Claims about convert_input_to_datetime                                  *)
(***************************************************************************)
\* the instants duparse returned, before any adjustment
ParsedStart == Datetime(dt_now[1], dt_date, dt_start)

\* C31: for every date of the current year and every two times of day,
\* convert_input_to_datetime returns a start that is not later than the end,
\* less than one day before it and not later than the current time; a start
\* in the future is moved back one year together with the end, and an end
\* earlier than the start is moved to the next day, so that end - start is
\* the distance from the start's time of day forward to the end's.
C31_StartEndOrdered ==
    dt_pc = "done" =>
        /\ ~Later(start_datetime, end_datetime)
        /\ SlotOf(end_datetime) - SlotOf(start_datetime) < SlotsPerDay
        /\ ~Later(start_datetime, dt_now)
        /\ start_datetime[1] =
              dt_now[1] - (IF Later(ParsedStart, dt_now) THEN 1 ELSE 0)
        /\ start_datetime[2] = dt_date[1]
        /\ start_datetime[4] = dt_start
        /\ end_datetime[4] = dt_end
        /\ SlotOf(end_datetime) - SlotOf(start_datetime) =
              (dt_end - dt_start) % SlotsPerDay

\* a 29 February still to come, given with an end before the start: both
\* instants go to 28 February of the year before, the end then to 1 March
C31_Witness ==
    /\ dt_pc = "done"
    /\ dt_date = <<2, 29>>
    /\ Later(ParsedStart, dt_now)
    /\ dt_end < dt_start
    /\ start_datetime = <<dt_now[1] - 1, 2, 28, dt_start>>
    /\ end_datetime = <<dt_now[1] - 1, 3, 1, dt_end>>


(***************************************************************************)
(* Claims about the web backend                                            *)
(***************************************************************************)
Finished(job) == job.status \in {"completed", "failed"}

JobHistories ==
    {<<"queued">>, <<"queued", "processing">>,
     <<"queued", "processing", "completed">>,
     <<"queued", "processing", "failed">>}

\* C32: whatever the order of requests and background tasks, the status of
\* every job in active_jobs moves only queued -> processing -> completed or
\* queued -> processing -> failed; a completed or failed job never changes
\* again; completed_at is set exactly when the status is completed or
\* failed; a completed job has progress 100 and a stored result.
C32_JobLifecycle ==
    /\ [](\A job_id \in DOMAIN active_jobs :
            LET job == active_jobs[job_id]
            IN /\ job.history \in JobHistories
               /\ job.status = job.history[Len(job.history)]
               /\ (job.completed_at = "set") <=> Finished(job)
               /\ job.status = "completed" =>
                      job.progress = 100 /\ job.result = "stored")
    /\ [][\A job_id \in DOMAIN active_jobs :
            Finished(active_jobs[job_id]) =>
                active_jobs'[job_id] = active_jobs[job_id]]_vars

\* a status request answered with the final status of the first job after
\* the second job was queued
C32_Witness ==
    /\ Len(active_jobs) = 2
    /\ active_jobs[1].history = <<"queued", "processing", "failed">>
    /\ active_jobs[1].completed_at = "set"
    /\ active_jobs[2].status = "queued"
    /\ response.endpoint = "status"
    /\ response.body = "failed"

\* C33: a job ends with status failed only when the operation it stands for
\* failed: a job whose operation can succeed (valid request, NVR and files
\* available) does not end failed.
C33_FailedOnlyWhenOperationFailed ==
    \A job_id \in DOMAIN active_jobs :
        active_jobs[job_id].status = "failed" => ~active_jobs[job_id].feasible

\* C35: a request rejected by an endpoint's own validation is answered with
\* the status code of that rejection: 400 for POST /extract with a missing
\* required parameter, 404 for POST /compress, POST /timelapse and
\* GET /download naming a file that does not exist; no rejection is answered
\* with 500.
C35_RejectionsKeepTheirStatus ==
    /\ response.rejected = "missing_parameter" => response.code = 400
    /\ response.rejected = "file_not_found" => response.code = 404
    /\ response.code = 500 => response.rejected = "none"


\* C34: in a run of extract_video_with_progress that does not fail, no call
\* of the progress callback passes a percentage below the one passed by the
\* call before it, however the two-second updates fall between the
\* milestone lines of the output.
C34_ProgressNeverDecreases ==
    g_pc = "returned" => ~regressed


\* C36: the name that _generate_output_filename builds for a camera alias
\* and a positive multiplier is, with its .mp4 extension, parsed by
\* _parse_filename_metadata back to that alias and that multiplier, also
\* when the alias contains an underscore.
C36_FilenameRoundTrip ==
    f_pc = "parsed" => f_parsed = <<f_alias, f_multiplier>>


====
